---- MODULE Spec2Model ----
(***************************************************************************)
(* Model of the YTS search-and-match engine of movie-lib-tools             *)
(* (src/yts.py): the mirror registry (_yts_bases), the resilient search    *)
(* clients (yts_search, yts_search_by_imdb, yts_movie_details) and the     *)
(* per-row use of their result by the batch driver.                        *)
(*                                                                         *)
(* Text is modelled as sequences of tokens.  For endpoints the tokens are  *)
(*   "s1".."s7"  the site roots of the seven built-in mirrors,             *)
(*   "c1","c2"   site roots that are not built-in,                         *)
(*   "/"         a slash,   "api/v2"  the literal text api/v2,             *)
(*   ","         a comma,   " "       a blank.                             *)
(* Durations are in hundredths of a second (0.75 s = 75).                  *)
(***************************************************************************)
EXTENDS Integers, Sequences, FiniteSets, TLC

VARIABLES
    env,        \* value of the environment variable YTS_API_BASE
    fn,         \* which client runs: yts_search, yts_search_by_imdb, yts_movie_details
    ident,      \* imdb_id / identifier argument is non-empty (always TRUE for yts_search)
    retries,    \* the retries argument
    pc,         \* position: "init", "loop", "done" (the client returned), "row" (the
                \* driver has the row's fields); "bases", "bases_done" for the registry alone
    bases,      \* the list returned by _yts_bases()
    idx,        \* index in bases of the mirror of the current for-iteration
    attempt,    \* local variable attempt
    backoff,    \* local variable backoff
    movies,     \* local variable movies (the candidate list parsed last)
    result,     \* the value returned (meaningful once pc = "done"; None is <<>>)
    last,       \* history: the outcome of the latest request, where it was issued,
                \* and either the candidate lists parsed so far or, in the runs
                \* that count them, the number of requests so far
    nsleeps,    \* history: number of backoff sleeps on the current mirror
    slept,      \* history: duration of the sleep made after the latest request (0: none)
    allDns,     \* history: every request issued so far ended in a DNS error
    onlyFail,   \* history: every request so far ended in a DNS error, a transport
                \* or HTTP error, or a 2xx response that is not JSON
    abandoned,  \* history: indices of the mirrors left by a break
    prevBackoff,\* history: value of backoff when the previous mirror was left (0: none)
    causes,     \* history: what caused the sleeps on the current mirror
    row,        \* the enrichment fields the batch driver computes for the row (pc = "row")
    arg,        \* arguments of a call of a pure function (<<>>: no such call)
    ret,        \* the value that call returned
    batch,      \* a run of a batch driver: its arguments, its loop and the output file
    ui          \* the browser of search results: its widgets and its workers (<<>>: none)

vars == <<env, fn, ident, retries, pc, bases, idx, attempt, backoff, movies,
          result, last, nsleeps, slept, allDns, onlyFail, abandoned,
          prevBackoff, causes, row, arg, ret, batch, ui>>

(***************************************************************************)
(* Bounds of the model.                                                    *)
(***************************************************************************)
MaxRetries == 2     \* retries ranges over 0..MaxRetries
MaxEntries == 2     \* number of comma-separated entries of YTS_API_BASE
MaxTorrents == 3    \* number of release variants of a candidate
MaxCandidates == 3  \* number of candidates a search returns
MaxPieces == 4      \* number of pieces a title is made of

(***************************************************************************)
(* Text helpers (Python str methods on token sequences).                   *)
(***************************************************************************)
Last(s) == s[Len(s)]

Front(s) == SubSeq(s, 1, Len(s) - 1)

EndsWith(s, suf) ==
    /\ Len(s) >= Len(suf)
    /\ SubSeq(s, Len(s) - Len(suf) + 1, Len(s)) = suf

RECURSIVE RStrip(_, _)
RStrip(s, ch) ==
    IF s # <<>> /\ Last(s) = ch THEN RStrip(Front(s), ch) ELSE s

RECURSIVE LStrip(_, _)
LStrip(s, ch) ==
    IF s # <<>> /\ Head(s) = ch THEN LStrip(Tail(s), ch) ELSE s

Strip(s) == LStrip(RStrip(s, " "), " ")

\* s.split(sep): always at least one piece; "".split(",") = [""]
RECURSIVE SplitAcc(_, _, _)
SplitAcc(s, sep, cur) ==
    IF s = <<>> THEN <<cur>>
    ELSE IF Head(s) = sep THEN <<cur>> \o SplitAcc(Tail(s), sep, <<>>)
    ELSE SplitAcc(Tail(s), sep, Append(cur, Head(s)))

Split(s, sep) == SplitAcc(s, sep, <<>>)

(***************************************************************************)
(* Mirror registry.                                                        *)
(***************************************************************************)
ApiSuffix == <<"/", "api/v2">>

_YTS_DEFAULT_BASES ==
    << <<"s1">> \o ApiSuffix, <<"s2">> \o ApiSuffix, <<"s3">> \o ApiSuffix,
       <<"s4">> \o ApiSuffix, <<"s5">> \o ApiSuffix, <<"s6">> \o ApiSuffix,
       <<"s7">> \o ApiSuffix >>

\* lines 64-67: the suffix test is made on b BEFORE its trailing slashes are stripped
NormalizeBase(b) ==
    IF EndsWith(b, ApiSuffix) THEN RStrip(b, "/")
    ELSE RStrip(b, "/") \o ApiSuffix

\* lines 59-68: the loop over env.split(',')
RECURSIVE ConfiguredBases(_)
ConfiguredBases(raws) ==
    IF raws = <<>> THEN <<>>
    ELSE LET b == Strip(Head(raws))
         IN  IF b = <<>> THEN ConfiguredBases(Tail(raws))
             ELSE <<NormalizeBase(b)>> \o ConfiguredBases(Tail(raws))

\* lines 72-77: de-dup while preserving order
RECURSIVE UniqAcc(_, _, _)
UniqAcc(bs, seen, uniq) ==
    IF bs = <<>> THEN uniq
    ELSE IF Head(bs) \notin seen
         THEN UniqAcc(Tail(bs), seen \cup {Head(bs)}, Append(uniq, Head(bs)))
         ELSE UniqAcc(Tail(bs), seen, uniq)

UniqKeepLast(bs) ==
    LET n == Len(bs)
        keep == {i \in 1..n : \A j \in (i+1)..n : bs[j] # bs[i]}
        F[k \in 0..n] ==
            IF k = 0 THEN <<>>
            ELSE IF k \in keep THEN Append(F[k-1], bs[k]) ELSE F[k-1]
    IN  F[n]

Uniq(bs) == UniqAcc(bs, {}, <<>>)

_yts_bases(e) ==
    LET envs == Strip(e)
        conf == IF envs # <<>> THEN ConfiguredBases(Split(envs, ",")) ELSE <<>>
    IN  Uniq(conf \o _YTS_DEFAULT_BASES)

(***************************************************************************)
(* What a request can come back with.  A response is either an exception   *)
(* raised by sess.get (a chain of exceptions linked by __cause__ /         *)
(* __context__, outermost first) or an HTTP response.                      *)
(*   chain links: "NameResolutionError" is urllib3's class; "msg_nodename" *)
(*   and "msg_notknown" are exceptions of another class whose text holds   *)
(*   'nodename nor servname provided' / 'Name or service not known';       *)
(*   every other link is an exception without any of the three marks.      *)
(*   bodies: "html" is text that is not JSON and does not start with '{';  *)
(*   "garbage_brace" starts with '{' and is not JSON; the others are JSON  *)
(*   documents (see Doc).                                                  *)
(***************************************************************************)
DnsChains ==
    { <<"ConnectionError", "MaxRetryError", "NameResolutionError">>,
      <<"ConnectionError", "msg_notknown">> }

TransportChains == { <<"ReadTimeout">> }

NoChain == <<>>

ExcResponse(ch) ==
    [kind |-> "exc", chain |-> ch, status |-> 0, ctypeJson |-> FALSE,
     body |-> "html", slow |-> FALSE]

HttpResponse(st, cj, b, sl) ==
    [kind |-> "http", chain |-> NoChain, status |-> st, ctypeJson |-> cj,
     body |-> b, slow |-> sl]

\* <<Content-Type is JSON, body, elapsed >= slow_after>> of the 2xx responses
OkShapes ==
    { <<FALSE, "html", FALSE>>,          <<FALSE, "html", TRUE>>,
      <<TRUE,  "html", FALSE>>,          <<FALSE, "garbage_brace", FALSE>>,
      <<TRUE,  "json_null", FALSE>>,     <<FALSE, "json_list", FALSE>>,
      <<TRUE,  "json_list", FALSE>>,     <<TRUE,  "obj_nomovies", FALSE>>,
      <<TRUE,  "obj_m1", FALSE>>,        <<TRUE,  "obj_m1", TRUE>>,
      <<FALSE, "obj_m2", FALSE>>,        <<FALSE, "obj_m2", TRUE>>,
      <<TRUE,  "obj_noid", FALSE>>,      <<TRUE,  "obj_movie", FALSE>>,
      <<TRUE,  "obj_movie", TRUE>> }

Responses ==
    {ExcResponse(ch) : ch \in DnsChains \cup TransportChains}
    \cup {HttpResponse(503, FALSE, "html", FALSE)}
    \cup {HttpResponse(200, sh[1], sh[2], sh[3]) : sh \in OkShapes}

NoResponse ==
    [kind |-> "none", chain |-> NoChain, status |-> 0, ctypeJson |-> FALSE,
     body |-> "html", slow |-> FALSE]

(***************************************************************************)
(* JSON documents and their conversion to YTSMovie (lines 223-235).        *)
(* A JSON movie is a function from the keys it has to their values; a      *)
(* title is a sequence of characters, a rating is in tenths.  A key that   *)
(* is absent, null or falsy is replaced by the same default                *)
(* (`x or default`), so only absent keys are modelled.                     *)
(***************************************************************************)
T1080web == [quality |-> "1080p", type |-> "web", hash |-> "h1"]
T2160blu == [quality |-> "2160p", type |-> "bluray", hash |-> "h2"]
T720web  == [quality |-> "720p", type |-> "web", hash |-> "h3"]

JMovieA ==
    [id |-> 1, title |-> <<"A", "b">>, year |-> 2020, url |-> "u1",
     torrents |-> <<T1080web, T2160blu>>, rating |-> 80,
     imdb_code |-> <<" ", "tt1">>]

JMovieB ==
    [id |-> 2, title |-> <<"b", "c">>, year |-> 2019, url |-> "u2",
     torrents |-> <<T720web>>, rating |-> 65, imdb_code |-> <<"tt2">>]

JMovieSparse == [id |-> 3]

JMovieNoId == [title |-> <<"c">>, year |-> 2021]

\* data of r.json(): type of the top-level value, data.movies, data.movie
Doc(b) ==
    CASE b = "json_null"    -> [type |-> "null", movies |-> <<>>, movie |-> <<>>]
      [] b = "json_list"    -> [type |-> "list", movies |-> <<>>, movie |-> <<>>]
      [] b = "obj_nomovies" -> [type |-> "dict", movies |-> <<>>, movie |-> <<>>]
      [] b = "obj_m1"       -> [type |-> "dict", movies |-> <<JMovieA>>, movie |-> <<>>]
      [] b = "obj_m2"       -> [type |-> "dict", movies |-> <<JMovieB, JMovieSparse>>, movie |-> <<>>]
      [] b = "obj_noid"     -> [type |-> "dict", movies |-> <<JMovieA, JMovieNoId>>, movie |-> <<>>]
      [] b = "obj_movie"    -> [type |-> "dict", movies |-> <<>>, movie |-> <<JMovieA>>]

StartsWithBrace(b) ==
    b \in {"garbage_brace", "obj_nomovies", "obj_m1", "obj_m2", "obj_noid", "obj_movie"}

IsJsonText(b) == b \notin {"html", "garbage_brace"}

Get(m, k, default) == IF k \in DOMAIN m THEN m[k] ELSE default

\* YTSMovie(...) of lines 226-234; requires "id" \in DOMAIN m
ToYTSMovie(m) ==
    [id        |-> m["id"],
     title     |-> Get(m, "title", <<>>),
     year      |-> Get(m, "year", 0),
     url       |-> Get(m, "url", ""),
     torrents  |-> Get(m, "torrents", <<>>),
     rating    |-> Get(m, "rating", 0),
     imdb_code |-> Strip(Get(m, "imdb_code", <<>>))]

\* The statements between `data is None` and the slow test: lines 223-235 of
\* yts_search, 296-308 of yts_search_by_imdb, 364 of yts_movie_details.
\* ok = FALSE when they raise (data.get on a list: AttributeError; m["id"]: KeyError).
\* The value of yts_movie_details (a dict or None) is a list of at most one element.
ParseData(f, d) ==
    IF d.type # "dict" THEN [ok |-> FALSE, value |-> <<>>]
    ELSE IF f = "yts_movie_details" THEN [ok |-> TRUE, value |-> d.movie]
    ELSE IF \E i \in 1..Len(d.movies) : "id" \notin DOMAIN d.movies[i]
         THEN [ok |-> FALSE, value |-> <<>>]
         ELSE [ok |-> TRUE,
               value |-> [i \in 1..Len(d.movies) |-> ToYTSMovie(d.movies[i])]]

(***************************************************************************)
(* Classification of an outcome.                                           *)
(***************************************************************************)
DnsMarks == {"NameResolutionError", "msg_nodename", "msg_notknown"}

\* variant that inspects only the exception caught, not its causes
IsDnsErrorHeadOnly(chain) == chain # <<>> /\ Head(chain) \in DnsMarks

\* _is_dns_error: walks the chain from the exception caught
RECURSIVE _is_dns_error(_)
_is_dns_error(chain) ==
    IF chain = <<>> THEN FALSE
    ELSE IF Head(chain) \in DnsMarks THEN TRUE
    ELSE _is_dns_error(Tail(chain))

\* r.raise_for_status(): raises HTTPError for a 4xx or 5xx status
RaiseForStatus(r) == r.status >= 400

\* _json_from_response: TRUE when it returns a value other than None
_json_from_response(r) ==
    IF r.ctypeJson \/ StartsWithBrace(r.body)
    THEN IsJsonText(r.body) /\ Doc(r.body).type # "null"
    ELSE FALSE

(***************************************************************************)
(* One iteration of `while True` (lines 190-259; 280-331; 348-387).        *)
(***************************************************************************)
Fns == {"yts_search", "yts_search_by_imdb", "yts_movie_details"}

SearchEnvs == { <<>>, <<"c1">> }

InitialBackoff == 75

\* variant with a ceiling on the delay
NextBackoffCapped(b) == IF b * 2 > 150 THEN 150 ELSE b * 2

\* backoff *= 2
NextBackoff(b) == b * 2

\* variant with a strict comparison
AttemptsRemainOneLess(a, rt) == a < rt

\* variant that allows one more attempt
AttemptsRemainOneMore(a, rt) == a <= rt + 1

\* `attempt <= retries`, attempt being already incremented for the current request
AttemptsRemain(a, rt) == a <= rt

\* What the try block (lines 193-242) comes to for response r:
\*   "raise"  an exception reaches `except Exception` (chain: that exception),
\*   "nojson" _json_from_response returned None,
\*   "parsed" the candidate list (value) was built.
TryOutcome(f, r) ==
    IF r.kind = "exc"
    THEN [tag |-> "raise", chain |-> r.chain, value |-> <<>>]
    ELSE IF RaiseForStatus(r)
    THEN [tag |-> "raise", chain |-> <<"HTTPError">>, value |-> <<>>]
    ELSE IF ~ _json_from_response(r)
    THEN [tag |-> "nojson", chain |-> NoChain, value |-> <<>>]
    ELSE LET p == ParseData(f, Doc(r.body))
         IN  IF p.ok
             THEN [tag |-> "parsed", chain |-> NoChain, value |-> p.value]
             ELSE [tag |-> "raise", chain |-> <<"KeyError">>, value |-> <<>>]

\* The outcomes the failure rules speak of, told from the response itself
Is2xx(r) == r.kind = "http" /\ r.status \in 200..299

IsDnsFailure(r) == r.kind = "exc" /\ r.chain \in DnsChains

IsTransientFailure(r) ==
    \/ r.kind = "exc" /\ r.chain \in TransportChains
    \/ r.kind = "http" /\ ~ Is2xx(r)

IsNotJson2xx(r) == Is2xx(r) /\ ~ r.ctypeJson /\ ~ StartsWithBrace(r.body)

\* value of last.count in the runs whose history does not count the requests
Uncounted == 0 - 1

\* the request of the iteration (lines 191-196), as recorded in the history
Issue(r) ==
    /\ last' = [mirror |-> idx, attempt |-> attempt + 1, resp |-> r,
                 count |-> IF last.count = Uncounted THEN Uncounted ELSE last.count + 1,
                 parsed |-> IF TryOutcome(fn, r).tag = "parsed" /\ last.count = Uncounted
                            THEN last.parsed \cup {TryOutcome(fn, r).value}
                            ELSE last.parsed]
    /\ allDns' = (allDns /\ IsDnsFailure(r))
    /\ onlyFail' = (onlyFail /\ (IsDnsFailure(r) \/ IsTransientFailure(r) \/ IsNotJson2xx(r)))

\* time.sleep(backoff); backoff *= 2; continue
SleepAndRetry ==
    /\ attempt' = attempt + 1
    /\ slept' = backoff
    /\ nsleeps' = nsleeps + 1
    /\ backoff' = NextBackoff(backoff)
    /\ UNCHANGED <<idx, pc, result, abandoned, prevBackoff>>

RetryWithoutSleep ==
    /\ attempt' = attempt + 1
    /\ slept' = 0
    /\ UNCHANGED <<idx, pc, result, backoff, nsleeps, abandoned, prevBackoff>>

Reraise ==
    /\ attempt' = attempt + 1
    /\ pc' = "raised"
    /\ slept' = 0
    /\ UNCHANGED <<idx, backoff, result, nsleeps, abandoned, prevBackoff>>

\* variant of Break that advances by two mirrors
BreakSkipsOne ==
    /\ slept' = 0
    /\ abandoned' = abandoned \cup {idx}
    /\ IF idx < Len(bases)
       THEN /\ idx' = IF idx + 2 <= Len(bases) THEN idx + 2 ELSE idx + 1
            /\ attempt' = 0
            /\ backoff' = 75
            /\ nsleeps' = 0
            /\ prevBackoff' = backoff
            /\ UNCHANGED <<pc, result>>
       ELSE /\ pc' = "done"
            /\ result' = <<>>
            /\ attempt' = attempt + 1
            /\ UNCHANGED <<idx, backoff, nsleeps, prevBackoff>>

\* break: the for loop goes on with the next base (lines 186-189: attempt = 0,
\* backoff = 0.75), or ends and the function returns [] (lines 260-262; None in
\* yts_movie_details)
Break ==
    /\ slept' = 0
    /\ abandoned' = abandoned \cup {idx}
    /\ IF idx < Len(bases)
       THEN /\ idx' = idx + 1
            /\ attempt' = 0
            /\ backoff' = InitialBackoff
            /\ nsleeps' = 0
            /\ prevBackoff' = backoff
            /\ UNCHANGED <<pc, result>>
       ELSE /\ pc' = "done"
            /\ result' = <<>>
            /\ attempt' = attempt + 1
            /\ UNCHANGED <<idx, backoff, nsleeps, prevBackoff>>

\* variant in which yts_movie_details starts at the second mirror
CallDetailsFromSecond ==
    /\ pc = "init"
    /\ IF fn # "yts_search" /\ ~ident
       THEN /\ pc' = "done"
            /\ result' = <<>>
            /\ UNCHANGED <<bases, idx, attempt, backoff>>
       ELSE /\ pc' = "loop"
            /\ bases' = _yts_bases(env)
            /\ idx' = IF fn = "yts_movie_details" THEN 2 ELSE 1
            /\ attempt' = 0
            /\ backoff' = InitialBackoff
            /\ UNCHANGED result
    /\ UNCHANGED <<env, fn, ident, retries, movies, last, nsleeps, slept, allDns,
                   onlyFail, abandoned, prevBackoff, causes, row, arg, ret, batch, ui>>

\* lines 175-185: the arguments are checked, the registry is read
Call ==
    /\ pc = "init"
    /\ IF fn # "yts_search" /\ ~ident
       THEN /\ pc' = "done"
            /\ result' = <<>>
            /\ UNCHANGED <<bases, idx, attempt, backoff>>
       ELSE /\ pc' = "loop"
            /\ bases' = _yts_bases(env)
            /\ idx' = 1
            /\ attempt' = 0
            /\ backoff' = InitialBackoff
            /\ UNCHANGED result
    /\ UNCHANGED <<env, fn, ident, retries, movies, last, nsleeps, slept, allDns,
                   onlyFail, abandoned, prevBackoff, causes, row, arg, ret, batch, ui>>

OnNotJsonRetry == SleepAndRetry

\* lines 202-206: data is None
OnNotJson == Break

OnDnsErrorRetry == SleepAndRetry

\* lines 246-249: _is_dns_error(e)
OnDnsError == Break

\* lines 250-256: attempt <= retries
OnErrorRetry == SleepAndRetry

OnErrorExhaustedReraise == Reraise

\* lines 257-259
OnErrorExhausted == Break

OnSlowNoSleep == RetryWithoutSleep

\* lines 236-241: elapsed >= slow_after and attempt <= retries
OnSlow == SleepAndRetry

ReturnEmpty ==
    /\ attempt' = attempt + 1
    /\ pc' = "done"
    /\ result' = <<>>
    /\ slept' = 0
    /\ UNCHANGED <<idx, backoff, nsleeps, abandoned, prevBackoff>>

\* variant that takes an empty candidate list for a failure of the mirror
ReturnUnlessEmpty ==
    IF movies' = <<>>
    THEN Break
    ELSE /\ attempt' = attempt + 1
         /\ pc' = "done"
         /\ result' = movies'
         /\ slept' = 0
         /\ UNCHANGED <<idx, backoff, nsleeps, abandoned, prevBackoff>>

\* line 242: return movies
ReturnMovies ==
    /\ attempt' = attempt + 1
    /\ pc' = "done"
    /\ result' = movies'
    /\ slept' = 0
    /\ UNCHANGED <<idx, backoff, nsleeps, abandoned, prevBackoff>>

Frame == UNCHANGED <<env, fn, ident, retries, bases, row, arg, ret, batch, ui>>

\* history of the sleeps of the current mirror
Caused(c) == causes' = IF idx' # idx THEN {} ELSE causes \cup c

\* 2xx, _json_from_response returned None
MirrorNotJson(r) ==
    /\ pc = "loop"
    /\ TryOutcome(fn, r).tag = "nojson"
    /\ Issue(r)
    /\ OnNotJson
    /\ Caused({})
    /\ UNCHANGED movies
    /\ Frame

\* an exception that _is_dns_error recognises
MirrorDnsError(r) ==
    /\ pc = "loop"
    /\ TryOutcome(fn, r).tag = "raise"
    /\ _is_dns_error(TryOutcome(fn, r).chain)
    /\ Issue(r)
    /\ OnDnsError
    /\ Caused({})
    /\ UNCHANGED movies
    /\ Frame

\* any other exception, attempts remain
RetryAfterError(r) ==
    /\ pc = "loop"
    /\ TryOutcome(fn, r).tag = "raise"
    /\ ~ _is_dns_error(TryOutcome(fn, r).chain)
    /\ AttemptsRemain(attempt + 1, retries)
    /\ Issue(r)
    /\ OnErrorRetry
    /\ Caused({"error"})
    /\ UNCHANGED movies
    /\ Frame

\* any other exception, attempts exhausted
GiveUpMirror(r) ==
    /\ pc = "loop"
    /\ TryOutcome(fn, r).tag = "raise"
    /\ ~ _is_dns_error(TryOutcome(fn, r).chain)
    /\ ~ AttemptsRemain(attempt + 1, retries)
    /\ Issue(r)
    /\ OnErrorExhausted
    /\ Caused({})
    /\ UNCHANGED movies
    /\ Frame

\* parsed, slow, attempts remain
RetryAfterSlow(r) ==
    /\ pc = "loop"
    /\ TryOutcome(fn, r).tag = "parsed"
    /\ r.slow /\ AttemptsRemain(attempt + 1, retries)
    /\ movies' = TryOutcome(fn, r).value
    /\ Issue(r)
    /\ OnSlow
    /\ Caused({"slow"})
    /\ Frame

\* parsed, and not slow or attempts exhausted
Return(r) ==
    /\ pc = "loop"
    /\ TryOutcome(fn, r).tag = "parsed"
    /\ ~ (r.slow /\ AttemptsRemain(attempt + 1, retries))
    /\ movies' = TryOutcome(fn, r).value
    /\ Issue(r)
    /\ ReturnMovies
    /\ Caused({})
    /\ Frame

(***************************************************************************)
(* Title normalization and similarity.  Characters are one-letter strings; *)
(* "Idot" is U+0130 (capital I with dot above) and "dot_above" is U+0307   *)
(* (combining dot above, not a word character).                            *)
(***************************************************************************)
LowerChars == {"a", "b", "c", "i"}

UpperChars == {"A", "B", "C", "Idot"}

Digits == {"0", "1", "2", "9"}

\* str.lower() of one character
LowerChar(c) ==
    CASE c = "A" -> "a" [] c = "B" -> "b" [] c = "C" -> "c" [] OTHER -> c

\* str.lower() of one character, as a string: U+0130 becomes 'i' + U+0307
LowerOf(c) == IF c = "Idot" THEN <<"i", "dot_above">> ELSE <<LowerChar(c)>>

RECURSIVE LowerSeq(_)
LowerSeq(s) == IF s = <<>> THEN <<>> ELSE LowerOf(Head(s)) \o LowerSeq(Tail(s))

IsSpace(c) == c = " "

\* \w of the re module: letters, digits and the underscore
IsWord(c) == c \in LowerChars \cup UpperChars \cup Digits \cup {"_"}

\* re.sub(r"[._]+", " ", s)
RECURSIVE SubDots(_)
SubDots(s) ==
    IF s = <<>> THEN <<>>
    ELSE IF Head(s) \in {".", "_"}
         THEN IF Len(s) > 1 /\ s[2] \in {".", "_"}
              THEN SubDots(Tail(s))
              ELSE <<" ">> \o SubDots(Tail(s))
         ELSE <<Head(s)>> \o SubDots(Tail(s))

\* re.sub(r"\((\d{4})\)", "", s)
RECURSIVE SubYear(_)
SubYear(s) ==
    IF s = <<>> THEN <<>>
    ELSE IF /\ Len(s) >= 6
            /\ s[1] = "(" /\ s[6] = ")"
            /\ \A k \in 2..5 : s[k] \in Digits
         THEN SubYear(SubSeq(s, 7, Len(s)))
         ELSE <<Head(s)>> \o SubYear(Tail(s))

\* re.sub(r"[^\w\s]", " ", s)
SubPunct(s) ==
    [i \in 1..Len(s) |-> IF IsWord(s[i]) \/ IsSpace(s[i]) THEN s[i] ELSE " "]

\* re.sub(r"\s+", " ", s)
RECURSIVE SubSpaces(_)
SubSpaces(s) ==
    IF s = <<>> THEN <<>>
    ELSE IF IsSpace(Head(s)) /\ Len(s) > 1 /\ IsSpace(s[2])
         THEN SubSpaces(Tail(s))
         ELSE <<Head(s)>> \o SubSpaces(Tail(s))

_sanitize_title(s) == LowerSeq(Strip(SubSpaces(SubPunct(SubYear(SubDots(s))))))

\* length of the common run of a from i and b from j, inside a[..ahi], b[..bhi]
RECURSIVE RunLen(_, _, _, _, _, _)
RunLen(a, i, ahi, b, j, bhi) ==
    IF i <= ahi /\ j <= bhi /\ a[i] = b[j]
    THEN 1 + RunLen(a, i + 1, ahi, b, j + 1, bhi)
    ELSE 0

\* SequenceMatcher.find_longest_match(alo, ahi, blo, bhi) without junk: the
\* longest block; of those the one earliest in a; of those the earliest in b
FindLongestMatch(a, alo, ahi, b, blo, bhi) ==
    LET blocks == {<<i, j, RunLen(a, i, ahi, b, j, bhi)>> : i \in alo..ahi, j \in blo..bhi}
        good   == {x \in blocks : x[3] > 0}
    IN  IF good = {} THEN <<alo, blo, 0>>
        ELSE CHOOSE x \in good :
               \A y \in good :
                  \/ x[3] > y[3]
                  \/ x[3] = y[3] /\ x[1] < y[1]
                  \/ x[3] = y[3] /\ x[1] = y[1] /\ x[2] <= y[2]

\* sum of the sizes of get_matching_blocks()
RECURSIVE MatchedChars(_, _, _, _, _, _)
MatchedChars(a, alo, ahi, b, blo, bhi) ==
    IF alo > ahi \/ blo > bhi THEN 0
    ELSE LET x == FindLongestMatch(a, alo, ahi, b, blo, bhi)
         IN  IF x[3] = 0 THEN 0
             ELSE x[3]
                  + MatchedChars(a, alo, x[1] - 1, b, blo, x[2] - 1)
                  + MatchedChars(a, x[1] + x[3], ahi, b, x[2] + x[3], bhi)

\* SequenceMatcher(None, a, b).ratio() = 2.0 * M / T (1.0 when T = 0), as the
\* fraction <<numerator, denominator>>
Ratio(a, b) ==
    IF Len(a) + Len(b) = 0 THEN <<1, 1>>
    ELSE <<2 * MatchedChars(a, 1, Len(a), b, 1, Len(b)), Len(a) + Len(b)>>

_title_similarity(a, b) == Ratio(_sanitize_title(a), _sanitize_title(b))

FracLess(x, y) == x[1] * y[2] < y[1] * x[2]

FracEq(x, y) == x[1] * y[2] = y[1] * x[2]

(***************************************************************************)
(* Candidate selection.  A key is <<rating, similarity, year bonus>>.      *)
(***************************************************************************)
KeyLess(k1, k2) ==
    \/ k1[1] < k2[1]
    \/ k1[1] = k2[1] /\ FracLess(k1[2], k2[2])
    \/ k1[1] = k2[1] /\ FracEq(k1[2], k2[2]) /\ k1[3] < k2[3]

\* variant that keeps the last of the greatest elements
RECURSIVE MaxIndexFromLast(_, _, _)
MaxIndexFromLast(keys, best, i) ==
    IF i > Len(keys) THEN best
    ELSE IF ~ KeyLess(keys[i], keys[best]) THEN MaxIndexFromLast(keys, i, i + 1)
    ELSE MaxIndexFromLast(keys, best, i + 1)

\* max(ms, key=...): the index of the first element whose key no other exceeds
RECURSIVE MaxIndexFrom(_, _, _)
MaxIndexFrom(keys, best, i) ==
    IF i > Len(keys) THEN best
    ELSE IF KeyLess(keys[best], keys[i]) THEN MaxIndexFrom(keys, i, i + 1)
    ELSE MaxIndexFrom(keys, best, i + 1)

MaxByKey(ms, keys) == ms[MaxIndexFrom(keys, 1, 2)]

NoYearDistance == 9999

Abs(n) == IF n < 0 THEN -n ELSE n

\* variant without the restriction to the candidates of the requested year
BestMatchScoreOnly(ms, title, year) ==
    IF ms = <<>> THEN <<>>
    ELSE LET score(m) ==
                 <<m.rating, _title_similarity(title, m.title),
                   IF year # 0
                   THEN -(IF m.year # 0 THEN Abs(m.year - year) ELSE NoYearDistance)
                   ELSE 0>>
         IN  <<MaxByKey(ms, [i \in 1..Len(ms) |-> score(ms[i])])>>

\* variant that gives up when a year is requested and no candidate has it
BestMatchSameYearOnly(ms, title, year) ==
    IF ms = <<>> THEN <<>>
    ELSE LET SameYear(m) == m.year = year
             same == SelectSeq(ms, SameYear)
             key2(m) == <<m.rating, _title_similarity(title, m.title), 0>>
         IN  IF year # 0
             THEN IF same # <<>>
                  THEN <<MaxByKey(same, [i \in 1..Len(same) |-> key2(same[i])])>>
                  ELSE <<>>
             ELSE <<MaxByKey(ms, [i \in 1..Len(ms) |-> key2(ms[i])])>>

\* _best_match; year 0 stands for None; the value is <<>> (None) or <<m>>
_best_match(ms, title, year) ==
    IF ms = <<>> THEN <<>>
    ELSE LET SameYear(m) == m.year = year
             same == SelectSeq(ms, SameYear)
             key2(m) == <<m.rating, _title_similarity(title, m.title), 0>>
             score(m) ==
                 <<m.rating, _title_similarity(title, m.title),
                   IF year # 0
                   THEN -(IF m.year # 0 THEN Abs(m.year - year) ELSE NoYearDistance)
                   ELSE 0>>
         IN  IF year # 0 /\ same # <<>>
             THEN <<MaxByKey(same, [i \in 1..Len(same) |-> key2(same[i])])>>
             ELSE <<MaxByKey(ms, [i \in 1..Len(ms) |-> score(ms[i])])>>

(***************************************************************************)
(* Quality ranks (in tenths: 2.5 is 25) and the upgrade resolver.          *)
(***************************************************************************)
\* str.lower() of the labels the model uses
LowerStr(x) ==
    CASE x = "1080P"  -> "1080p"
      [] x = "2160P"  -> "2160p"
      [] x = "BluRay" -> "bluray"
      [] x = "UHD"    -> "uhd"
      [] x = "4K"     -> "4k"
      [] x = "TT1"    -> "tt1"
      [] OTHER        -> x

QUALITY_RANK(q) ==
    CASE q = "720p"  -> 10
      [] q = "1080p" -> 20
      [] q = "1440p" -> 25
      [] q = "2160p" -> 30
      [] q = "4k"    -> 30
      [] q = "uhd"   -> 30
      [] OTHER       -> 0

\* position of a label in the order of Python strings
\* ("1080p" < "1440p" < "2160p" < "4k" < "720p" < "uhd"); 0 for an unranked label
LabelOrder(q) ==
    CASE q = "1080p" -> 1
      [] q = "1440p" -> 2
      [] q = "2160p" -> 3
      [] q = "4k"    -> 4
      [] q = "720p"  -> 5
      [] q = "uhd"   -> 6
      [] OTHER       -> 0

LowerSeqStr(x) == [i \in 1..Len(x) |-> LowerStr(x[i])]

RATING_UHD_THRESHOLD == 70

\* variant with the ladder in ascending order
PrefQualitiesAscending == <<"720p", "1080p", "2160p">>

PREF_QUALITIES_HIGH == <<"2160p", "1080p", "720p">>

PREF_QUALITIES_DEFAULT == <<"1080p", "720p">>

\* _detect_current_quality: the first token of the list found in name.lower();
\* name is a sequence of words
_detect_current_quality(name) ==
    LET has(tok) == \E i \in 1..Len(name) : LowerStr(name[i]) = tok
    IN  CASE has("2160p") -> 30
          [] has("4k")    -> 30
          [] has("uhd")   -> 30
          [] has("1440p") -> 25
          [] has("1080p") -> 20
          [] has("1024p") -> 15
          [] has("720p")  -> 10
          [] OTHER        -> 0

\* (t.get("quality") or "").lower()
QualityOf(t) == LowerStr(Get(t, "quality", ""))

\* variant that compares the type as written
IsBlurayExact(t) == Get(t, "type", "") = "bluray"

IsBluray(t) == LowerStr(Get(t, "type", "")) = "bluray"

\* by_quality[q] after arr.sort(...): the torrents of label q, bluray first,
\* otherwise in the order of match.torrents
Group(torrents, q) ==
    LET Blu(t)   == QualityOf(t) = q /\ IsBluray(t)
        Other(t) == QualityOf(t) = q /\ ~ IsBluray(t)
    IN  SelectSeq(torrents, Blu) \o SelectSeq(torrents, Other)

\* the keys of by_quality
Labels(torrents) == {QualityOf(torrents[i]) : i \in 1..Len(torrents)} \ {""}

\* variant that also accepts a ladder entry of the current rank
RECURSIVE FirstOfLadderAtLeast(_, _, _)
FirstOfLadderAtLeast(pref, torrents, cur_rank) ==
    IF pref = <<>> THEN ""
    ELSE IF QUALITY_RANK(LowerStr(Head(pref))) >= cur_rank
            /\ LowerStr(Head(pref)) \in Labels(torrents)
         THEN Head(pref)
         ELSE FirstOfLadderAtLeast(Tail(pref), torrents, cur_rank)

\* lines 784-788: the first ladder entry above cur_rank that has a torrent
RECURSIVE FirstOfLadder(_, _, _)
FirstOfLadder(pref, torrents, cur_rank) ==
    IF pref = <<>> THEN ""
    ELSE IF QUALITY_RANK(LowerStr(Head(pref))) > cur_rank
            /\ LowerStr(Head(pref)) \in Labels(torrents)
         THEN Head(pref)
         ELSE FirstOfLadder(Tail(pref), torrents, cur_rank)

NoTorrent == <<>>

\* variant that also takes the labels of the current rank
FallbackLabelsAtLeast(torrents, cur_rank) ==
    {q \in Labels(torrents) : QUALITY_RANK(q) >= cur_rank}

\* lines 790-794: the labels of the fallback candidates
FallbackLabels(torrents, cur_rank) ==
    {q \in Labels(torrents) : QUALITY_RANK(q) > cur_rank}

\* variant that sorts the candidates in ascending order
BottomLabel(cands) ==
    CHOOSE q \in cands :
       \A o \in cands :
          \/ QUALITY_RANK(o) > QUALITY_RANK(q)
          \/ QUALITY_RANK(o) = QUALITY_RANK(q) /\ LabelOrder(o) >= LabelOrder(q)

\* lines 796-797: candidates.sort(reverse=True); candidates[0]: the greatest
\* (rank, label), labels compared as Python strings
TopLabel(cands) ==
    CHOOSE q \in cands :
       \A o \in cands :
          \/ QUALITY_RANK(o) < QUALITY_RANK(q)
          \/ QUALITY_RANK(o) = QUALITY_RANK(q) /\ LabelOrder(o) <= LabelOrder(q)

\* _choose_next_quality: <<label, <<torrent>> >>, or <<"", <<>> >> for ("", None)
_choose_next_quality(match, cur_rank) ==
    LET pref == IF match.rating >= RATING_UHD_THRESHOLD
                THEN PREF_QUALITIES_HIGH ELSE PREF_QUALITIES_DEFAULT
        want == FirstOfLadder(pref, match.torrents, cur_rank)
        cands == FallbackLabels(match.torrents, cur_rank)
        top  == TopLabel(cands)
    IN  IF want # ""
        THEN <<want, <<Group(match.torrents, LowerStr(want))[1]>> >>
        ELSE IF cands # {}
        THEN <<top, <<Group(match.torrents, top)[1]>> >>
        ELSE <<"", NoTorrent>>

\* urllib.parse.quote of one character
QuoteChar(c) ==
    CASE c = " " -> "%20" [] c = "(" -> "%28" [] c = ")" -> "%29" [] OTHER -> c

\* magnet_from_torrent: the pieces of the URI, in order
magnet_from_torrent(title, t) ==
    <<"magnet:?xt=", "urn:btih:", Get(t, "hash", ""), "&dn=">>
    \o [i \in 1..Len(title) |-> QuoteChar(title[i])]
    \o <<".", Get(t, "quality", ""), ".", Get(t, "type", "")>>

(***************************************************************************)
(* The batch driver's use of the search result (yts_lookup_from_csv).      *)
(***************************************************************************)
EmptyRow ==
    [yts_title |-> <<>>, yts_year |-> <<>>, yts_url |-> "",
     yts_quality_available |-> <<>>, yts_next_quality |-> "", magnet |-> <<>>]

\* variant that compares the IMDb ids as written
TaskMatchExactCase(ms, pm) ==
    LET Same(m) == m.imdb_code = pm.imdb_id
        hits == SelectSeq(ms, Same)
    IN  IF pm.imdb_id # <<>> /\ hits # <<>> THEN <<hits[1]>>
        ELSE _best_match(ms, pm.title, pm.year)

\* lines 876-880 of task: ms is what yts_search returned; pm is what the
\* pre-match left in best_title, best_year (0: None) and imdb_id (<<>>: None)
TaskMatch(ms, pm) ==
    LET Same(m) == LowerSeqStr(m.imdb_code) = LowerSeqStr(pm.imdb_id)
        hits == SelectSeq(ms, Same)
    IN  IF pm.imdb_id # <<>> /\ hits # <<>> THEN <<hits[1]>>
        ELSE _best_match(ms, pm.title, pm.year)

\* all_q (lines 914-918, 565-568): <<quality, type>> of each torrent, in the
\* order of match.torrents; a pair stands for the string f"{q}.{typ}"
AllQ(torrents) ==
    [i \in 1..Len(torrents) |->
        <<Get(torrents[i], "quality", ""), Get(torrents[i], "type", "")>>]

\* position of f"{q}.{typ}" in the order of Python strings, for the pairs the
\* candidates of this model carry; 0 for any other pair
JoinedOrder(p) ==
    CASE p = <<"1080p", "bluray">> -> 1
      [] p = <<"1080p", "web">>    -> 2
      [] p = <<"2160p", "bluray">> -> 3
      [] p = <<"2160p", "web">>    -> 4
      [] p = <<"480p", "bluray">>  -> 5
      [] p = <<"720p", "web">>     -> 6
      [] OTHER                     -> 0

\* sorted(set(all_q)) of line 938
RECURSIVE SortedSet(_)
SortedSet(S) ==
    IF S = {} THEN <<>>
    ELSE LET least == CHOOSE x \in S : \A y \in S : JoinedOrder(x) <= JoinedOrder(y)
         IN  <<least>> \o SortedSet(S \ {least})

\* variant that builds the locator from the first variant of the candidate
NextMagnetOfFirst(m, next) ==
    IF next[2] # NoTorrent THEN magnet_from_torrent(m.title, m.torrents[1]) ELSE <<>>

\* variant that takes the first torrent when there is no next one
NextMagnetAlways(m, next) ==
    IF next[2] # NoTorrent THEN magnet_from_torrent(m.title, next[2][1])
    ELSE IF m.torrents # <<>> THEN magnet_from_torrent(m.title, m.torrents[1])
    ELSE <<>>

\* next_mag (line 925) and mag (line 570)
NextMagnet(m, next) ==
    IF next[2] # NoTorrent THEN magnet_from_torrent(m.title, next[2][1]) ELSE <<>>

\* the enrichment fields of a matched row: combined of lines 933-941 as mapped
\* by lines 970-977 (driver "csv"), enriched of lines 571-578 (driver "jf").
\* The joined field is the sequence of its pairs; yts_year is <<>> when empty.
EnrichedFields(m, cur_rank, driver) ==
    LET next == _choose_next_quality(m, cur_rank)
        all_q == AllQ(m.torrents)
    IN  [yts_title |-> m.title,
         yts_year  |-> IF driver = "jf" /\ m.year = 0 THEN <<>> ELSE <<m.year>>,
         yts_url   |-> m.url,
         yts_quality_available |->
             IF driver = "csv"
             THEN SortedSet({all_q[i] : i \in 1..Len(all_q)})
             ELSE all_q,
         yts_next_quality |-> next[1],
         magnet |-> NextMagnet(m, next)]

\* process_one (lines 891-942) and the mapping of its list to the enrichment
\* fields (lines 969-978): ms is what yts_search returned inside task
process_one(ms, src, pm) ==
    LET match == TaskMatch(ms, pm)
    IN  IF match = <<>> THEN EmptyRow
        ELSE EnrichedFields(match[1], _detect_current_quality(src), "csv")

\* rows of the input file, as far as this step reads them: the words of the
\* path, and what the pre-match made of title, year and IMDb id
RowInputs ==
    { [src |-> <<"Ab", "720p">>,
       pm  |-> [title |-> <<"a", "b">>, year |-> 2020, imdb_id |-> <<>>]],
      [src |-> <<"bc">>,
       pm  |-> [title |-> <<"b", "c">>, year |-> 0, imdb_id |-> <<"TT1">>]] }

\* yts_search has returned to task: the row's enrichment fields are computed
ProcessOne(inp) ==
    /\ pc = "done"
    /\ fn = "yts_search"
    /\ row' = process_one(result, inp.src, inp.pm)
    /\ pc' = "row"
    /\ UNCHANGED <<env, fn, ident, retries, bases, idx, attempt, backoff, movies,
                   result, last, nsleeps, slept, allDns, onlyFail, abandoned,
                   prevBackoff, causes, arg, ret, batch, ui>>

NoRequest ==
    [mirror |-> 0, attempt |-> 0, resp |-> NoResponse, count |-> Uncounted,
     parsed |-> {}]

\* no batch driver runs
NoBatch == <<>>

\* no browser runs
NoUi == <<>>

Init ==
    /\ env \in SearchEnvs
    /\ fn \in Fns
    /\ ident \in BOOLEAN
    /\ (fn = "yts_search" => ident)
    /\ retries \in 0..MaxRetries
    /\ pc = "init"
    /\ bases = <<>>
    /\ idx = 0
    /\ attempt = 0
    /\ backoff = 0
    /\ movies = <<>>
    /\ result = <<>>
    /\ last = NoRequest
    /\ nsleeps = 0
    /\ slept = 0
    /\ allDns = TRUE
    /\ onlyFail = TRUE
    /\ abandoned = {}
    /\ prevBackoff = 0
    /\ causes = {}
    /\ row = EmptyRow
    /\ batch = NoBatch
    /\ ui = NoUi
    /\ arg = <<>>
    /\ ret = <<>>

Next ==
    \/ Call
    \/ \E r \in Responses : MirrorNotJson(r)
    \/ \E r \in Responses : MirrorDnsError(r)
    \/ \E r \in Responses : RetryAfterError(r)
    \/ \E r \in Responses : GiveUpMirror(r)
    \/ \E r \in Responses : RetryAfterSlow(r)
    \/ \E r \in Responses : Return(r)
    \/ \E inp \in RowInputs : ProcessOne(inp)

Spec == Init /\ [][Next]_vars

(***************************************************************************)
(* Vocabulary of the properties.                                           *)
(***************************************************************************)
RECURSIVE Pow2(_)
Pow2(n) == IF n <= 0 THEN 1 ELSE 2 * Pow2(n - 1)

\* a request was issued by the step
Requested == last' # last

\* the call has returned (result is its value); in "row" the batch driver has
\* gone on to compute the row from it
Returned == pc \in {"done", "row"}

\* JSON documents that have the shape the API gives them (all are objects)
ApiBodies == {"obj_nomovies", "obj_m1", "obj_m2", "obj_movie"}

IsValid2xx(r) == Is2xx(r) /\ r.body \in ApiBodies

\* the candidate list of a valid response (the movie, for yts_movie_details)
Candidates(f, r) == ParseData(f, Doc(r.body)).value

\* mirror i has been left by a break, without a sleep, and the call is about
\* to make the first request to mirror i+1, or has returned [] if i was the last
FailedOverFrom(i) ==
    /\ i \in abandoned
    /\ slept = 0
    /\ IF i < Len(bases)
       THEN pc = "loop" /\ idx = i + 1 /\ attempt = 0
       ELSE Returned /\ result = <<>>

\* the latest request is being retried: the call slept the backoff, doubled
\* it, and is about to request the same mirror again
RetryingSame ==
    /\ pc = "loop"
    /\ idx = last.mirror
    /\ attempt = last.attempt
    /\ last.mirror \notin abandoned
    /\ slept > 0
    /\ backoff = 2 * slept

\* no request is ever issued to a mirror that was abandoned
NeverBackToAbandoned == [][Requested => last'.mirror \notin abandoned]_vars

(***************************************************************************)
(* C1: in the three clients, a 2xx response that is not JSON (Content-Type *)
(* not JSON and body not starting with '{') makes the call leave the       *)
(* mirror at once: no sleep, the next request (if any) goes to the next    *)
(* mirror, whatever attempts were left; the mirror is never requested      *)
(* again.                                                                  *)
(***************************************************************************)
C1_NotJsonFailsOver ==
    /\ [](IsNotJson2xx(last.resp) => FailedOverFrom(last.mirror))
    /\ NeverBackToAbandoned

C1_Witness ==
    /\ IsNotJson2xx(last.resp)
    /\ last.attempt = 2 /\ retries = MaxRetries
    /\ pc = "loop" /\ idx = last.mirror + 1

(***************************************************************************)
(* C2: a DNS error, on whichever attempt, makes the call leave the mirror  *)
(* at once: no sleep, no further request to it, next mirror.               *)
(***************************************************************************)
C2_DnsFailsOver ==
    /\ [](IsDnsFailure(last.resp) => FailedOverFrom(last.mirror))
    /\ [][Requested /\ IsDnsFailure(last.resp) => last'.mirror # last.mirror]_vars

C2_Witness ==
    /\ IsDnsFailure(last.resp)
    /\ last.resp.chain = <<"ConnectionError", "MaxRetryError", "NameResolutionError">>
    /\ last.attempt = 2
    /\ pc = "loop" /\ idx = last.mirror + 1

(***************************************************************************)
(* C3: when every mirror answers with a DNS error, each mirror of the      *)
(* registry is requested exactly once, in order, and the call returns the  *)
(* empty list without raising, for every value of retries.                 *)
(***************************************************************************)
C3_AllDnsOnceEach ==
    /\ [](allDns /\ last.mirror > 0 =>
            /\ last.attempt = 1
            /\ (pc = "loop" \/ Returned)
            /\ (pc = "loop" => idx = last.mirror + 1 /\ attempt = 0)
            /\ (Returned => last.mirror = Len(bases) /\ result = <<>>))
    /\ [][Requested /\ allDns' => last'.mirror = last.mirror + 1]_vars

C3_Witness ==
    /\ pc = "done" /\ allDns /\ last.mirror = Len(bases)
    /\ Len(bases) > Len(_YTS_DEFAULT_BASES)
    /\ retries = MaxRetries
    /\ result = <<>>

C5_BackoffDoubles ==
    /\ (slept > 0 => slept = InitialBackoff * Pow2(nsleeps - 1))
    /\ (pc = "loop" => backoff = InitialBackoff * Pow2(nsleeps))
    /\ (pc = "loop" /\ attempt = 0 => nsleeps = 0)

C5_Witness ==
    /\ idx > 1 /\ prevBackoff = 300
    /\ nsleeps = 2 /\ slept = 150 /\ backoff = 300
    /\ causes = {"error", "slow"}

(***************************************************************************)
(* C6: a valid response that took slow_after or more is not returned       *)
(* while attempts remain: the call sleeps the backoff, doubles it and      *)
(* requests the same mirror again; on the last permitted attempt its       *)
(* candidate list is returned.                                             *)
(***************************************************************************)
C6_SlowValidRetried ==
    IsValid2xx(last.resp) /\ last.resp.slow =>
        IF last.attempt <= retries
        THEN RetryingSame
        ELSE Returned /\ result = Candidates(fn, last.resp)

C6_Witness ==
    /\ IsValid2xx(last.resp) /\ last.resp.slow
    /\ retries = 2 /\ last.attempt = 3
    /\ pc = "done" /\ result # <<>>
    /\ causes = {"slow"}

(***************************************************************************)
(* C7: a valid response that took less than slow_after ends the call: the  *)
(* candidate list of that very response is returned and no request         *)
(* follows, to this mirror or to a later one.                              *)
(***************************************************************************)
C7_FastValidReturns ==
    /\ [](IsValid2xx(last.resp) /\ ~ last.resp.slow =>
            Returned /\ result = Candidates(fn, last.resp))
    /\ [][Returned => ~ Requested]_vars

C7_Witness ==
    /\ IsValid2xx(last.resp) /\ ~ last.resp.slow
    /\ pc = "done" /\ Len(result) = 2
    /\ last.mirror < Len(bases) /\ last.attempt <= retries
    /\ movies # <<>>

(***************************************************************************)
(* C8: when every request of a call ends in a DNS error, a transport or    *)
(* HTTP error or a non-JSON response, every mirror ends up abandoned and   *)
(* the call returns the empty list (None in yts_movie_details) and raises  *)
(* nothing; whenever all mirrors were abandoned the value is empty; the    *)
(* batch driver then writes the row as 'no match' (all fields empty).      *)
(***************************************************************************)
C8_ExhaustionReturnsEmpty ==
    /\ (pc \in {"init", "loop"} \/ Returned)
    /\ (onlyFail /\ last.mirror > 0 /\ Returned =>
           abandoned = 1..Len(bases) /\ result = <<>>)
    /\ (Returned /\ bases # <<>> /\ abandoned = 1..Len(bases) =>
           result = <<>>)
    /\ (pc = "row" /\ result = <<>> => row = EmptyRow)

C8_Witness ==
    /\ pc = "row" /\ row = EmptyRow
    /\ onlyFail /\ ~ allDns
    /\ abandoned = 1..Len(bases)
    /\ IsNotJson2xx(last.resp)
    /\ prevBackoff = 300

(***************************************************************************)
(* C9: the mirrors are requested in registry order: the index of the       *)
(* mirror requested never decreases, a mirror is requested only after all  *)
(* earlier mirrors were abandoned, an abandoned mirror never again.        *)
(***************************************************************************)
C9_RegistryOrder ==
    [][Requested =>
         /\ last'.mirror >= last.mirror
         /\ last'.mirror \in 1..Len(bases)
         /\ \A j \in 1..(last'.mirror - 1) : j \in abandoned
         /\ last'.mirror \notin abandoned]_vars

C9_Witness ==
    /\ last.mirror = Len(bases) /\ Len(bases) = 8
    /\ last.attempt = 2
    /\ abandoned = 1..7
    /\ pc = "loop"

(***************************************************************************)
(* The registry alone: _yts_bases() under every bounded YTS_API_BASE.      *)
(***************************************************************************)
\* the comma-separated entries YTS_API_BASE is made of
RawEntries ==
    { <<>>, <<" ">>,
      <<"c1">>, <<"c1", "/">>, <<"c1", "/", "api/v2">>, <<"c1", "/", "api/v2", "/">>,
      <<" ", "c1", " ">>, <<"c2">>,
      <<"s1">>, <<"s4", "/", "api/v2">>, <<"s4", "/">>, <<"s7", "/", "api/v2", "/">> }

\* ",".join(es)
RECURSIVE JoinEntries(_)
JoinEntries(es) ==
    IF es = <<>> THEN <<>>
    ELSE IF Len(es) = 1 THEN es[1]
    ELSE es[1] \o <<",">> \o JoinEntries(Tail(es))

EntryLists == UNION {[1..n -> RawEntries] : n \in 0..MaxEntries}

InitBases ==
    /\ \E es \in EntryLists : env = JoinEntries(es)
    /\ fn = "yts_search"
    /\ ident = TRUE
    /\ retries = 0
    /\ pc = "bases"
    /\ bases = <<>>
    /\ idx = 0
    /\ attempt = 0
    /\ backoff = 0
    /\ movies = <<>>
    /\ result = <<>>
    /\ last = NoRequest
    /\ nsleeps = 0
    /\ slept = 0
    /\ allDns = TRUE
    /\ onlyFail = TRUE
    /\ abandoned = {}
    /\ prevBackoff = 0
    /\ causes = {}
    /\ row = EmptyRow
    /\ batch = NoBatch
    /\ ui = NoUi
    /\ arg = <<>>
    /\ ret = <<>>

\* a call of _yts_bases()
ReadBases ==
    /\ pc = "bases"
    /\ bases' = _yts_bases(env)
    /\ pc' = "bases_done"
    /\ UNCHANGED <<env, fn, ident, retries, idx, attempt, backoff, movies, result,
                   last, nsleeps, slept, allDns, onlyFail, abandoned, prevBackoff,
                   causes, row, arg, ret, batch, ui>>

NextBases == ReadBases

SpecBases == InitBases /\ [][NextBases]_vars

Range(s) == {s[i] : i \in 1..Len(s)}

FirstIndex(s, x) == CHOOSE i \in 1..Len(s) : s[i] = x /\ \A j \in 1..(i-1) : s[j] # x

\* the normalized configured roots, in configured order, duplicates included
Configured(e) ==
    IF Strip(e) = <<>> THEN <<>> ELSE ConfiguredBases(Split(Strip(e), ","))

(***************************************************************************)
(* C10: _yts_bases returns the normalized configured roots in configured   *)
(* order, then the built-in mirrors in built-in order, each endpoint kept  *)
(* at its first occurrence only: no endpoint is repeated, every built-in   *)
(* mirror is present, and a built-in mirror that is also configured stands *)
(* at its configured position.                                             *)
(***************************************************************************)
C10_BasesOrderedDeduplicated ==
    pc = "bases_done" =>
        LET conf == Configured(env)
            all  == conf \o _YTS_DEFAULT_BASES
        IN  /\ \A i, j \in 1..Len(bases) : i # j => bases[i] # bases[j]
            /\ Range(bases) = Range(all)
            /\ \A i, j \in 1..Len(bases) :
                 i < j => FirstIndex(all, bases[i]) < FirstIndex(all, bases[j])
            /\ \A k \in 1..Len(_YTS_DEFAULT_BASES) :
                 _YTS_DEFAULT_BASES[k] \in Range(conf) =>
                    FirstIndex(bases, _YTS_DEFAULT_BASES[k]) =
                       Cardinality({conf[m] : m \in
                           1..FirstIndex(conf, _YTS_DEFAULT_BASES[k])})

C10_Witness ==
    /\ pc = "bases_done"
    /\ Len(bases) = 8
    /\ bases[1] = <<"c1", "/", "api/v2">>
    /\ bases[2] = _YTS_DEFAULT_BASES[4]
    /\ bases[6] = _YTS_DEFAULT_BASES[5]

\* the roots configured in e: its comma-separated entries, stripped, the empty
\* ones dropped
ConfiguredRoots(e) ==
    LET raws == Split(Strip(e), ",")
        NonEmpty(r) == r # <<>>
    IN  SelectSeq([i \in 1..Len(raws) |-> Strip(raws[i])], NonEmpty)

\* the endpoint the normalization rule gives a root: trailing slashes are
\* stripped, then the segment is appended unless the root already ends with it
NormalizedRoot(root) ==
    LET s == RStrip(root, "/")
    IN  IF EndsWith(s, ApiSuffix) THEN s ELSE s \o ApiSuffix

(***************************************************************************)
(* C11: every non-empty configured root is in the registry as its          *)
(* normalized endpoint: trailing slashes stripped, '/api/v2' appended only *)
(* when the stripped root does not already end with it (R, R/, R/api/v2    *)
(* and R/api/v2/ all give R/api/v2); the registry holds nothing but these  *)
(* endpoints and the built-in mirrors.                                     *)
(***************************************************************************)
C11_RootsNormalized ==
    pc = "bases_done" =>
        LET roots == ConfiguredRoots(env)
        IN  /\ \A i \in 1..Len(roots) : NormalizedRoot(roots[i]) \in Range(bases)
            /\ \A b \in Range(bases) :
                 \/ b \in Range(_YTS_DEFAULT_BASES)
                 \/ \E i \in 1..Len(roots) : b = NormalizedRoot(roots[i])

(***************************************************************************)
(* Calls of _choose_next_quality: a candidate with up to MaxTorrents       *)
(* release variants, and the rank of the copy already owned.               *)
(***************************************************************************)
\* <<quality, type>> of the variants a candidate may offer
VariantKinds ==
    { <<"720p", "web">>,    <<"1080p", "web">>,
      <<"1080p", "bluray">>, <<"1080P", "BluRay">>, <<"1440p", "web">>,
      <<"2160p", "web">>,   <<"2160p", "bluray">>, <<"4k", "web">>,
      <<"UHD", "web">>,     <<"480p", "bluray">>,  <<"", "web">> }

\* the torrents of a candidate; hash tells the positions apart
TorrentLists ==
    UNION { { [i \in 1..n |-> [quality |-> ks[i][1], type |-> ks[i][2], hash |-> i]] :
                ks \in [1..n -> VariantKinds] } : n \in 0..MaxTorrents }

\* ratings in tenths
Ratings == {69, 70, 80}

\* the values of _detect_current_quality and _rank_from_height
CurrentRanks == {0, 10, 15, 20, 25, 30}

\* the variables of the search stay as before any call
NoSearch ==
    /\ env = <<>>
    /\ fn = "yts_search"
    /\ ident = TRUE
    /\ retries = 0
    /\ bases = <<>>
    /\ idx = 0
    /\ attempt = 0
    /\ backoff = 0
    /\ movies = <<>>
    /\ result = <<>>
    /\ last = NoRequest
    /\ nsleeps = 0
    /\ slept = 0
    /\ allDns = TRUE
    /\ onlyFail = TRUE
    /\ abandoned = {}
    /\ prevBackoff = 0
    /\ causes = {}
    /\ row = EmptyRow

InitQuality ==
    /\ NoSearch
    /\ batch = NoBatch
    /\ ui = NoUi
    /\ pc = "call"
    /\ \E ts \in TorrentLists, r \in Ratings, c \in CurrentRanks :
          arg = [match |-> [id |-> 1, title |-> <<"a">>, year |-> 2020, url |-> "u1",
                            torrents |-> ts, rating |-> r, imdb_code |-> <<>>],
                 cur_rank |-> c]
    /\ ret = <<>>

\* a call of _choose_next_quality(match, cur_rank)
ChooseNextQuality ==
    /\ pc = "call"
    /\ ret' = _choose_next_quality(arg.match, arg.cur_rank)
    /\ pc' = "chosen"
    /\ UNCHANGED <<env, fn, ident, retries, bases, idx, attempt, backoff, movies,
                   result, last, nsleeps, slept, allDns, onlyFail, abandoned,
                   prevBackoff, causes, row, arg, batch, ui>>

NextQuality == ChooseNextQuality

SpecQuality == InitQuality /\ [][NextQuality]_vars

(***************************************************************************)
(* C12: whenever _choose_next_quality returns a non-empty label, the rank  *)
(* of that label in QUALITY_RANK is strictly above cur_rank, and the       *)
(* variant returned with it carries that label (compared in lower case).   *)
(***************************************************************************)
C12_LabelAboveCurrentRank ==
    pc = "chosen" /\ ret[1] # "" =>
        /\ QUALITY_RANK(ret[1]) > arg.cur_rank
        /\ ret[2] # NoTorrent
        /\ LowerStr(ret[2][1].quality) = LowerStr(ret[1])

C12_Witness ==
    /\ pc = "chosen"
    /\ ret[1] = "1080p" /\ arg.cur_rank = 15
    /\ ret[2][1].quality = "1080P"
    /\ \E i \in 1..Len(arg.match.torrents) : arg.match.torrents[i].quality = "720p"

\* the preference ladder of a candidate rated r (in tenths)
Ladder(r) == IF r >= 70 THEN <<"2160p", "1080p", "720p">> ELSE <<"1080p", "720p">>

\* the candidate offers a variant labelled q (in any case) and q ranks above the
\* current rank
Qualifies(q) ==
    /\ QUALITY_RANK(q) > arg.cur_rank
    /\ \E i \in 1..Len(arg.match.torrents) : LowerStr(arg.match.torrents[i].quality) = q

\* <<quality, type>> of the variants of the candidate, in list order
KindsOf(ts) == [i \in 1..Len(ts) |-> <<ts[i].quality, ts[i].type>>]

(***************************************************************************)
(* C13: the ladder is [2160p, 1080p, 720p] for a rating >= 7.0 and         *)
(* [1080p, 720p] below; the label returned is the first ladder entry that  *)
(* ranks above cur_rank and that the candidate offers.  Rating 8.0 with    *)
(* [1080p/web, 2160p/bluray, 720p/web] and rank 1 gives 2160p and the      *)
(* bluray variant; a rating below 7.0 with 2160p and 1080p on offer and    *)
(* rank 0 gives 1080p.                                                     *)
(***************************************************************************)
C13_FirstLadderEntry ==
    pc = "chosen" =>
        LET L == Ladder(arg.match.rating)
        IN  /\ \A k \in 1..Len(L) :
                 Qualifies(L[k]) /\ (\A j \in 1..(k-1) : ~ Qualifies(L[j]))
                     => ret[1] = L[k]
            /\ (/\ arg.match.rating = 80 /\ arg.cur_rank = 10
                 /\ KindsOf(arg.match.torrents) =
                       << <<"1080p", "web">>, <<"2160p", "bluray">>, <<"720p", "web">> >>)
                   => ret = <<"2160p", <<arg.match.torrents[2]>> >>

C13_Witness ==
    /\ pc = "chosen"
    /\ arg.match.rating = 69 /\ arg.cur_rank = 0
    /\ KindsOf(arg.match.torrents) = << <<"2160p", "web">>, <<"1080p", "web">> >>
    /\ ret[1] = "1080p"

\* the lower-cased labels of the candidate's variants that rank above the
\* current rank
LabelsAbove ==
    {q \in {LowerStr(arg.match.torrents[i].quality) : i \in 1..Len(arg.match.torrents)} :
        QUALITY_RANK(q) > arg.cur_rank}

NoLadderEntryQualifies ==
    \A k \in 1..Len(Ladder(arg.match.rating)) : ~ Qualifies(Ladder(arg.match.rating)[k])

(***************************************************************************)
(* C14: when no ladder entry qualifies and some variant ranks above        *)
(* cur_rank, the label returned is one offered by the candidate whose rank *)
(* is the highest among those above cur_rank (2160p for a candidate rated  *)
(* below 7.0 that offers only 2160p; 1440p when only 1440p is above the    *)
(* current rank); a label unknown to QUALITY_RANK is never returned.       *)
(***************************************************************************)
C14_FallbackHighestRank ==
    pc = "chosen" =>
        /\ (NoLadderEntryQualifies /\ LabelsAbove # {} =>
               /\ ret[1] \in LabelsAbove
               /\ \A o \in LabelsAbove : QUALITY_RANK(o) <= QUALITY_RANK(ret[1]))
        /\ (arg.match.rating = 69 /\ KindsOf(arg.match.torrents) = << <<"2160p", "web">> >>
               /\ arg.cur_rank < 30 => ret[1] = "2160p")
        /\ (KindsOf(arg.match.torrents) = << <<"1440p", "web">>, <<"1080p", "web">> >>
               /\ arg.cur_rank = 20 => ret[1] = "1440p")
        /\ (ret[1] # "" => QUALITY_RANK(LowerStr(ret[1])) > 0)

C14_Witness ==
    /\ pc = "chosen"
    /\ arg.match.rating = 80 /\ arg.cur_rank = 20
    /\ KindsOf(arg.match.torrents) =
          << <<"480p", "bluray">>, <<"1440p", "web">>, <<"UHD", "web">> >>
    /\ ret[1] = "uhd"

MinOf(S) == CHOOSE i \in S : \A j \in S : i <= j

(***************************************************************************)
(* C16: the variant returned with a label is a bluray one (type compared   *)
(* in lower case) whenever the candidate has a bluray variant of that      *)
(* label: the first such in the list; when the label has no bluray         *)
(* variant, it is the first variant of that label in the list.             *)
(***************************************************************************)
C16_BlurayFirstThenListOrder ==
    pc = "chosen" /\ ret[2] # NoTorrent =>
        LET ts   == arg.match.torrents
            same == {i \in 1..Len(ts) : LowerStr(ts[i].quality) = LowerStr(ret[1])}
            blu  == {i \in same : LowerStr(ts[i].type) = "bluray"}
        IN  /\ same # {}
            /\ ret[2][1] = ts[MinOf(IF blu # {} THEN blu ELSE same)]

C16_Witness ==
    /\ pc = "chosen"
    /\ KindsOf(arg.match.torrents) =
          << <<"1080p", "web">>, <<"1080P", "BluRay">>, <<"1080p", "bluray">> >>
    /\ ret[1] = "1080p"
    /\ ret[2][1].hash = 2

(***************************************************************************)
(* Calls of the selection: the candidate list a search returned (up to     *)
(* MaxCandidates candidates), and the title, year (0: none) and IMDb id    *)
(* (<<>>: none) known for the row.                                         *)
(***************************************************************************)
\* <<title, year, rating, imdb_code>> of the candidates a search may return
CandidateKinds ==
    { << <<"a", "b">>,      2020, 80, <<"tt1">> >>,
      << <<"a", "b">>,      2019, 80, <<"tt2">> >>,
      << <<"a", "c">>,      2020, 80, <<>> >>,
      << <<"a", "b">>,      2020, 65, <<"TT1">> >>,
      << <<"c">>,           2019, 90, <<"tt2">> >>,
      << <<"a", "b">>,      0,    80, <<>> >>,
      << <<"A", ".", "b">>, 2022, 80, <<>> >>,
      << <<"a", "c">>,      2019, 65, <<"tt1">> >>,
      << <<>>,              2018, 0,  <<>> >> }

\* the list a search returned; id tells the positions apart
CandidateLists ==
    UNION { { [i \in 1..n |->
                 [id |-> i, title |-> ks[i][1], year |-> ks[i][2], url |-> "u1",
                  torrents |-> <<>>, rating |-> ks[i][3], imdb_code |-> ks[i][4]]] :
                ks \in [1..n -> CandidateKinds] } : n \in 0..MaxCandidates }

QueryTitles == { <<"a", "b">>, <<"C">> }

QueryYears == {0, 2020, 2021}

QueryIds == { <<>>, <<"TT1">> }

InitMatch ==
    /\ NoSearch
    /\ batch = NoBatch
    /\ ui = NoUi
    /\ pc = "call"
    /\ \E ms \in CandidateLists, t \in QueryTitles, y \in QueryYears, i \in QueryIds :
          arg = [ms |-> ms, title |-> t, year |-> y, imdb_id |-> i]
    /\ ret = <<>>

\* the selection made for a row by task (and by yts_lookup_from_jf_csv)
SelectMatch ==
    /\ pc = "call"
    /\ ret' = TaskMatch(arg.ms, arg)
    /\ pc' = "matched"
    /\ UNCHANGED <<env, fn, ident, retries, bases, idx, attempt, backoff, movies,
                   result, last, nsleeps, slept, allDns, onlyFail, abandoned,
                   prevBackoff, causes, row, arg, batch, ui>>

\* a call of _best_match(movies, title, year)
BestMatch ==
    /\ pc = "call"
    /\ ret' = _best_match(arg.ms, arg.title, arg.year)
    /\ pc' = "best"
    /\ UNCHANGED <<env, fn, ident, retries, bases, idx, attempt, backoff, movies,
                   result, last, nsleeps, slept, allDns, onlyFail, abandoned,
                   prevBackoff, causes, row, arg, batch, ui>>

NextMatch == SelectMatch \/ BestMatch

SpecMatch == InitMatch /\ [][NextMatch]_vars

\* positions of the candidates whose imdb_code is the row's IMDb id, case ignored
IdHits ==
    {i \in 1..Len(arg.ms) : LowerSeqStr(arg.ms[i].imdb_code) = LowerSeqStr(arg.imdb_id)}

(***************************************************************************)
(* C17: when the row's IMDb id is known and some candidate of the list     *)
(* carries it (case ignored), the row's match is the first such candidate  *)
(* of the list, whatever the ratings, years and titles of the others; the  *)
(* heuristic choice of _best_match is the match only when the id is        *)
(* unknown or no candidate carries it.                                     *)
(***************************************************************************)
C17_ExternalIdMatchFirst ==
    pc = "matched" =>
        IF arg.imdb_id # <<>> /\ IdHits # {}
        THEN ret = <<arg.ms[MinOf(IdHits)]>>
        ELSE ret = _best_match(arg.ms, arg.title, arg.year)

C17_Witness ==
    /\ pc = "matched"
    /\ arg.imdb_id = <<"TT1">> /\ arg.year = 2020 /\ arg.title = <<"C">>
    /\ Len(arg.ms) = 3
    /\ arg.ms[1].rating = 90 /\ arg.ms[1].imdb_code = <<"tt2">>
    /\ arg.ms[2].imdb_code = <<"tt1">> /\ arg.ms[2].year = 2019 /\ arg.ms[2].rating = 65
    /\ arg.ms[3].imdb_code = <<"TT1">>
    /\ ret = <<arg.ms[2]>>
    /\ _best_match(arg.ms, arg.title, arg.year) # ret

\* positions of the candidates of the requested year
SameYearHits == {i \in 1..Len(arg.ms) : arg.ms[i].year = arg.year}

\* similarity of a candidate's title to the requested title
Sim(m) == _title_similarity(arg.title, m.title)

\* (rating, similarity) of m1 is below that of m2 in lexicographic order
RatingSimLess(m1, m2) ==
    \/ m1.rating < m2.rating
    \/ m1.rating = m2.rating /\ FracLess(Sim(m1), Sim(m2))

(***************************************************************************)
(* C18: when a year is given and some candidate has exactly that year,     *)
(* _best_match returns a candidate of that year whose (rating, title       *)
(* similarity) no other candidate of that year exceeds, even when a        *)
(* candidate of another year is rated higher or has a closer title.        *)
(***************************************************************************)
C18_SameYearFirst ==
    pc = "best" /\ arg.year # 0 /\ SameYearHits # {} =>
        /\ ret # <<>>
        /\ \E i \in SameYearHits : ret[1] = arg.ms[i]
        /\ \A i \in SameYearHits : ~ RatingSimLess(ret[1], arg.ms[i])

C18_Witness ==
    /\ pc = "best"
    /\ arg.year = 2020 /\ arg.title = <<"C">>
    /\ Len(arg.ms) = 3
    /\ arg.ms[1].year = 2019 /\ arg.ms[1].rating = 90 /\ arg.ms[1].title = <<"c">>
    /\ arg.ms[2].year = 2020 /\ arg.ms[2].rating = 65
    /\ arg.ms[3].year = 2020 /\ arg.ms[3].rating = 80
    /\ ret = <<arg.ms[3]>>

(***************************************************************************)
(* C19: _best_match returns no candidate exactly when the list is empty;   *)
(* for a non-empty list it returns an element of the list, whatever the    *)
(* title and the year (none, matching or not).                             *)
(***************************************************************************)
C19_NoneOnlyForEmptyList ==
    pc = "best" =>
        /\ (ret = <<>> <=> arg.ms = <<>>)
        /\ (arg.ms # <<>> =>
               Len(ret) = 1 /\ \E i \in 1..Len(arg.ms) : ret[1] = arg.ms[i])

C19_Witness ==
    /\ pc = "best"
    /\ arg.year = 2021 /\ arg.title = <<"C">>
    /\ Len(arg.ms) = 2
    /\ arg.ms[1].title = <<>> /\ arg.ms[1].rating = 0
    /\ arg.ms[2].title = <<>>
    /\ ret = <<arg.ms[1]>>

\* year distance of a candidate: constant when no year is requested, 9999 for
\* a candidate without a year
YearDistance(m) ==
    IF arg.year = 0 THEN 0
    ELSE IF m.year = 0 THEN 9999
    ELSE IF m.year >= arg.year THEN m.year - arg.year ELSE arg.year - m.year

\* (rating, similarity, minus year distance) of m1 is below that of m2
ScoreLess(m1, m2) ==
    \/ m1.rating < m2.rating
    \/ m1.rating = m2.rating /\ FracLess(Sim(m1), Sim(m2))
    \/ /\ m1.rating = m2.rating /\ FracEq(Sim(m1), Sim(m2))
       /\ YearDistance(m1) > YearDistance(m2)

(***************************************************************************)
(* C20: when no year is given, or no candidate has the year given,         *)
(* _best_match returns the earliest candidate of the list that is maximal  *)
(* for (rating, title similarity, minus year distance) in lexicographic    *)
(* order: rating dominates similarity, similarity dominates the year       *)
(* distance, which is 9999 for a candidate without a year and plays no     *)
(* part when no year is requested.                                         *)
(***************************************************************************)
C20_ScoreOrderEarliestMaximum ==
    pc = "best" /\ arg.ms # <<>> /\ (arg.year = 0 \/ SameYearHits = {}) =>
        \E j \in 1..Len(arg.ms) :
            /\ ret = <<arg.ms[j]>>
            /\ \A i \in 1..Len(arg.ms) : ~ ScoreLess(arg.ms[j], arg.ms[i])
            /\ \A i \in 1..(j-1) : ScoreLess(arg.ms[i], arg.ms[j])

C20_Witness ==
    /\ pc = "best"
    /\ arg.year = 2021 /\ arg.title = <<"a", "b">>
    /\ Len(arg.ms) = 3
    /\ \A i \in 1..3 : arg.ms[i].title = <<"a", "b">> /\ arg.ms[i].rating = 80
    /\ arg.ms[1].year = 0 /\ arg.ms[2].year = 2019 /\ arg.ms[3].year = 2020
    /\ ret = <<arg.ms[3]>>

(***************************************************************************)
(* Calls of _sanitize_title: a title made of up to MaxPieces pieces, then  *)
(* the normalization of the normalized title.                              *)
(***************************************************************************)
TitlePieces ==
    { <<"a">>, <<"A">>, <<"b">>, <<" ">>, <<".">>, <<"_">>, <<"(">>, <<")">>,
      <<"-">>, <<"2", "0">>, <<"(", "2", "0", "2", "0", ")">>, <<"Idot">> }

RECURSIVE Concat(_)
Concat(ps) == IF ps = <<>> THEN <<>> ELSE Head(ps) \o Concat(Tail(ps))

\* the titles made of up to m pieces
Titles(m) == UNION { {Concat(ps) : ps \in [1..n -> TitlePieces]} : n \in 0..m }

InitTitle ==
    /\ NoSearch
    /\ batch = NoBatch
    /\ ui = NoUi
    /\ pc = "call"
    /\ arg \in Titles(MaxPieces)
    /\ ret = <<>>

\* _sanitize_title(s)
Sanitize ==
    /\ pc = "call"
    /\ ret' = <<_sanitize_title(arg)>>
    /\ pc' = "sanitized"
    /\ UNCHANGED <<env, fn, ident, retries, bases, idx, attempt, backoff, movies,
                   result, last, nsleeps, slept, allDns, onlyFail, abandoned,
                   prevBackoff, causes, row, arg, batch, ui>>

\* a second call of _sanitize_title, on the title the first call returned
SanitizeAgain ==
    /\ pc = "sanitized"
    /\ ret' = <<ret[1], _sanitize_title(ret[1])>>
    /\ pc' = "resanitized"
    /\ UNCHANGED <<env, fn, ident, retries, bases, idx, attempt, backoff, movies,
                   result, last, nsleeps, slept, allDns, onlyFail, abandoned,
                   prevBackoff, causes, row, arg, batch, ui>>

NextTitle == Sanitize \/ SanitizeAgain

SpecTitle == InitTitle /\ [][NextTitle]_vars

(***************************************************************************)
(* C21: _sanitize_title is idempotent: normalizing a normalized title      *)
(* gives it back; and a normalized title has no dot, underscore,           *)
(* parenthesis or other character that is neither a word character nor a   *)
(* space, no upper-case letter, no space at either end and no two spaces   *)
(* in a row.                                                               *)
(***************************************************************************)
C21_SanitizeIdempotent ==
    /\ (pc = "resanitized" => ret[2] = ret[1])
    /\ (pc \in {"sanitized", "resanitized"} =>
           LET t == ret[1]
           IN  /\ \A i \in 1..Len(t) :
                    /\ IsWord(t[i]) \/ IsSpace(t[i])
                    /\ t[i] \notin {".", "_", "(", ")"} \cup UpperChars
               /\ (t # <<>> => t[1] # " " /\ t[Len(t)] # " ")
               /\ \A i \in 1..(Len(t) - 1) : ~ (t[i] = " " /\ t[i+1] = " "))

(***************************************************************************)
(* The pre-match of task (lines 850-874).  What a service's requests got   *)
(* is a record: kind is "neterr" (the request raised), "status" (an error  *)
(* status), "noresults" or "found"; for "found", title, year (0: none) and *)
(* id (<<>>: none) are those of the entry the service picks.               *)
(***************************************************************************)
FailKinds == {"neterr", "status", "noresults"}

Failed(kind) == [kind |-> kind, title |-> <<>>, year |-> 0, id |-> <<>>]

\* the value for a failure that every field is blank
ServiceReturnBlank(o, title, year) ==
    IF o.kind = "found"
    THEN [title   |-> IF o.title # <<>> THEN o.title ELSE title,
          year    |-> IF o.year # 0 THEN o.year ELSE year,
          imdb_id |-> o.id]
    ELSE [title |-> <<>>, year |-> 0, imdb_id |-> <<>>]

\* the tuple a service function returns: _tmdb_search (lines 722-758),
\* _omdb_lookup (lines 685-719), _pick_best_imdb (lines 676-682); every
\* failure ends in `return title, year, None`
ServiceReturn(o, title, year) ==
    IF o.kind = "found"
    THEN [title   |-> IF o.title # <<>> THEN o.title ELSE title,
          year    |-> IF o.year # 0 THEN o.year ELSE year,
          imdb_id |-> o.id]
    ELSE [title |-> title, year |-> year, imdb_id |-> <<>>]

\* _pick_best_imdb(_imdb_suggest(title), title, y): an empty title is not
\* looked up (lines 617-621)
ImdbSuggestPick(o, title, year) ==
    IF Strip(title) = <<>> THEN ServiceReturn(Failed("noresults"), title, year)
    ELSE ServiceReturn(o, title, year)

ConsultTmdb(mode, tmdb_key) ==
    mode \in {"tmdb", "auto"} /\ (tmdb_key \/ mode = "tmdb")

\* variant that does not look at the ID found so far
ConsultOmdbAlways(mode, omdb_key, imdb_id) ==
    mode \in {"omdb", "auto"} /\ (omdb_key \/ mode = "omdb")

ConsultOmdb(mode, omdb_key, imdb_id) ==
    mode \in {"omdb", "auto"} /\ (omdb_key \/ mode = "omdb") /\ imdb_id = <<>>

ConsultImdbSuggest(mode, imdb_id) ==
    mode \in {"imdb-suggest", "auto"} /\ imdb_id = <<>>

\* best_title, best_year, imdb_id of task when it calls yts_search, and the
\* services it has consulted, in order; o gives what each service would get
PreMatch(base_title, y, pre_match, tmdb_key, omdb_key, o) ==
    LET mode == IF pre_match = "" THEN "none" ELSE pre_match
        Take(st, r, name) ==
            [title |-> r.title, year |-> r.year,
             imdb_id |-> IF r.imdb_id # <<>> THEN r.imdb_id ELSE st.imdb_id,
             consulted |-> Append(st.consulted, name)]
        s0 == [title |-> base_title, year |-> y, imdb_id |-> <<>>, consulted |-> <<>>]
        s1 == IF ConsultTmdb(mode, tmdb_key)
              THEN Take(s0, ServiceReturn(o.tmdb, base_title, y), "tmdb")
              ELSE s0
        s2 == IF ConsultOmdb(mode, omdb_key, s1.imdb_id)
              THEN Take(s1, ServiceReturn(o.omdb, base_title, y), "omdb")
              ELSE s1
        r3 == ImdbSuggestPick(o.imdb, base_title, y)
        s3 == IF ConsultImdbSuggest(mode, s2.imdb_id)
              THEN IF /\ r3.title # <<>>
                      /\ \/ r3.imdb_id # <<>>
                         \/ LowerSeq(r3.title) # LowerSeq(base_title)
                         \/ (r3.year # 0 /\ r3.year # y)
                   THEN Take(s2, r3, "imdb-suggest")
                   ELSE [s2 EXCEPT !.consulted = Append(@, "imdb-suggest")]
              ELSE s2
    IN  s3

(***************************************************************************)
(* The batch drivers: yts_lookup_from_csv (lines 822-1005, driver "csv")   *)
(* and yts_lookup_from_jf_csv (lines 495-587, driver "jf").  A row of the  *)
(* input file has the columns the drivers read: title (title or name),     *)
(* year, src (path), max_height, imdb_id, and in old the six enrichment    *)
(* columns (absent and empty alike: row.get(c, "")).  A JSON number is     *)
(* the token "#1080".                                                      *)
(***************************************************************************)
MaxRows == 2        \* an input file has 1..MaxRows data rows

TNumber == [quality |-> "#1080", type |-> "web", hash |-> "h5"]

JMovieDup ==
    [id |-> 4, title |-> <<"b", "c">>, url |-> "u4",
     torrents |-> <<T720web, T1080web, T720web>>, rating |-> 65]

JMovieNumber == [id |-> 5, title |-> <<"c">>, torrents |-> <<TNumber>>]

\* what the search made for a row may return
BatchResults ==
    { <<>>, <<ToYTSMovie(JMovieA)>>, <<ToYTSMovie(JMovieDup)>>,
      <<ToYTSMovie(JMovieNumber)>> }

\* what imdb-suggest may get for a row (no key is set for tmdb and omdb)
BatchIdentities ==
    { [tmdb |-> Failed("neterr"), omdb |-> Failed("neterr"), imdb |-> i] :
        i \in { Failed("noresults"),
                [kind |-> "found", title |-> <<"A", "b">>, year |-> 2020,
                 id |-> <<"TT1">>] } }

OldFull ==
    [yts_title |-> <<"A", "b">>, yts_year |-> <<2020>>, yts_url |-> "u1",
     yts_quality_available |-> << <<"1080p", "web">> >>,
     yts_next_quality |-> "1080p", magnet |-> <<"magnet:?xt=">>]

OldTitleOnly == [EmptyRow EXCEPT !.yts_title = <<"b", "c">>]

RowKinds ==
    { [title |-> <<"A", "b">>, year |-> "2020", src |-> <<"Ab", "720p">>,
       max_height |-> "480", imdb_id |-> <<>>, old |-> EmptyRow],
      [title |-> <<"A", "b">>, year |-> "", src |-> <<"Ab", "1080p">>,
       max_height |-> "1080", imdb_id |-> <<"TT1">>, old |-> OldFull],
      [title |-> <<"b", "c">>, year |-> "19xx", src |-> <<"bc">>,
       max_height |-> "", imdb_id |-> <<"TT1">>, old |-> EmptyRow],
      [title |-> <<"b", "c">>, year |-> "2020", src |-> <<"bc">>,
       max_height |-> "", imdb_id |-> <<>>, old |-> OldTitleOnly],
      [title |-> <<"b", "c">>, year |-> "19xx", src |-> <<"bc">>,
       max_height |-> "", imdb_id |-> <<>>, old |-> OldFull] }

\* int(year) raises ValueError (lines 854, 551, 559)
YearRaises(year) == year \notin {"", "2020"}

\* int(year) if year else None; 0 is None
YearOf(year) == IF year = "2020" THEN 2020 ELSE 0

\* height of lines 524-531; 0 is None
HeightOf(h) == CASE h = "480" -> 480 [] h = "1080" -> 1080 [] OTHER -> 0

\* variant without the 1440 bucket
RankFromHeightNoQhd(height) ==
    CASE height >= 2160 -> 30
      [] height >= 1080 -> 20
      [] height >= 720  -> 10
      [] OTHER          -> 0

\* _rank_from_height, in tenths
_rank_from_height(height) ==
    CASE height >= 2160 -> 30
      [] height >= 1440 -> 25
      [] height >= 1080 -> 20
      [] height >= 720  -> 10
      [] OTHER          -> 0

\* q.lower() of lines 919 and 776 raises AttributeError: a label is a number
LowerRaises(m) ==
    \E i \in 1..Len(m.torrents) : Get(m.torrents[i], "quality", "") = "#1080"

\* variant of the test that looks at yts_next_quality alone
HasEnrichmentNextOnly(r) == r.old.yts_next_quality # ""

\* the test of line 956 on the row's columns
HasEnrichment(r) ==
    \/ r.old.yts_next_quality # ""
    \/ r.old.magnet # <<>>
    \/ r.old.yts_title # <<>>

\* what an iteration made of its row: how it went, the fields it leaves in
\* enriched, the requests it sent (services, and ms: what the search returned),
\* the candidate matched, the rank of the copy owned, and whether an exception
\* leaves the loop
Made(how, fields, services, ms, match, cur_rank, raised) ==
    [how |-> how, fields |-> fields, services |-> services, ms |-> ms,
     match |-> IF how \in {"matched", "fields_raised"} THEN match ELSE <<>>,
     cur_rank |-> cur_rank, raised |-> raised]

\* variant that leaves the row's own values when there is no match
CsvMatchedKeepsOld(r, match, cur_rank, sent, ms) ==
    IF match = <<>> THEN Made("nomatch", r.old, sent, ms, match, cur_rank, FALSE)
    ELSE IF LowerRaises(match[1])
    THEN Made("fields_raised", r.old, sent, ms, match, cur_rank, FALSE)
    ELSE Made("matched", EnrichedFields(match[1], cur_rank, "csv"), sent, ms,
              match, cur_rank, FALSE)

\* process_one once task has returned match (lines 906-942), and the handler
\* of lines 990-993 for what it raises; sent: the requests of task
CsvMatched(r, match, cur_rank, sent, ms) ==
    IF match = <<>> THEN Made("nomatch", EmptyRow, sent, ms, match, cur_rank, FALSE)
    ELSE IF LowerRaises(match[1])
    THEN Made("fields_raised", r.old, sent, ms, match, cur_rank, FALSE)
    ELSE Made("matched", EnrichedFields(match[1], cur_rank, "csv"), sent, ms,
              match, cur_rank, FALSE)

\* task (lines 850-880) for the values pm of the pre-match, then process_one
CsvTask(r, pm, ms) ==
    CsvMatched(r, TaskMatch(ms, pm), _detect_current_quality(r.src),
               Append(pm.consulted, "mirror"), ms)

\* One iteration of the loop of yts_lookup_from_csv up to the assignment of
\* enriched (lines 952-993): the skip test, else process_one and its handlers.
\* o is what the identity services would get, ms what yts_search would return.
\* No key is set for tmdb and omdb (lines 838-841 with an empty environment).
CsvRow(r, refresh, pre_match, o, ms) ==
    IF ~ refresh /\ HasEnrichment(r)
    THEN Made("carried", r.old, <<>>, <<>>, <<>>, _detect_current_quality(r.src), FALSE)
    ELSE IF YearRaises(r.year)
    THEN Made("task_raised", EmptyRow, <<>>, <<>>, <<>>,
              _detect_current_quality(r.src), FALSE)
    ELSE CsvTask(r, PreMatch(Strip(r.title), YearOf(r.year), pre_match, FALSE, FALSE, o),
                 ms)

\* lines 561-578 once match is known, and line 559 before it: int(year) is
\* evaluated when no candidate carries the row's IMDb id
JfMatched(r, idhit, match, cur_rank, ms) ==
    IF ~ idhit /\ YearRaises(r.year)
    THEN Made("task_raised", EmptyRow, <<"mirror">>, ms, match, cur_rank, TRUE)
    ELSE IF match = <<>>
    THEN Made("nomatch", EmptyRow, <<"mirror">>, ms, match, cur_rank, FALSE)
    ELSE IF LowerRaises(match[1])
    THEN Made("fields_raised", EmptyRow, <<"mirror">>, ms, match, cur_rank, TRUE)
    ELSE Made("matched", EnrichedFields(match[1], cur_rank, "jf"), <<"mirror">>, ms,
              match, cur_rank, FALSE)

\* lines 551-559: the search, by IMDb id when the row has one, and the match
JfSearch(r, imdb_id, cur_rank, ms) ==
    IF imdb_id = <<>> /\ YearRaises(r.year)
    THEN Made("task_raised", EmptyRow, <<>>, <<>>, <<>>, cur_rank, TRUE)
    ELSE JfMatched(r,
                   /\ imdb_id # <<>>
                   /\ \E i \in 1..Len(ms) :
                         LowerSeqStr(ms[i].imdb_code) = LowerSeqStr(imdb_id),
                   TaskMatch(ms, [title |-> r.title, year |-> YearOf(r.year),
                                  imdb_id |-> imdb_id]),
                   cur_rank, ms)

\* One iteration of the loop of yts_lookup_from_jf_csv up to out_row (lines
\* 520-580); raised: an exception leaves the loop, no handler being there.
JfRow(r, ms) ==
    IF HeightOf(r.max_height) >= 720
    THEN Made("carried", r.old, <<>>, <<>>, <<>>,
              _rank_from_height(HeightOf(r.max_height)), FALSE)
    ELSE JfSearch(r, Strip(r.imdb_id), _rank_from_height(HeightOf(r.max_height)), ms)

\* variant that leaves the row in the writer's buffer
FlushedRowsBuffered(file, out_row) == file

\* w.writerow(out_row); f_out.flush(): the data rows the file holds
FlushedRows(file, out_row) == Append(file, out_row)

\* the arguments of a run; yts_lookup_from_jf_csv has neither flag
BatchArgs ==
    { [driver |-> "csv", refresh |-> f, pre_match |-> m] :
        f \in BOOLEAN, m \in {"none", "auto"} }
    \cup { [driver |-> "jf", refresh |-> FALSE, pre_match |-> "none"] }

RowLists == UNION { [1..n -> RowKinds] : n \in 1..MaxRows }

\* the file is open, its header written; k rows are done; file holds the data
\* rows flushed; fsyncs counts the calls of os.fsync, synced the rows whose
\* call returned; reqs and hist are history: the requests sent, with the state
\* of the file when they were sent, and what each iteration made of its row
InitBatch ==
    /\ NoSearch
    /\ ui = NoUi
    /\ pc = "next_row"
    /\ arg = <<>>
    /\ ret = <<>>
    /\ batch \in { [driver |-> a.driver, refresh |-> a.refresh,
                    pre_match |-> a.pre_match, rows |-> rs, k |-> 0,
                    file |-> <<>>, fsyncs |-> 0, synced |-> {}, reqs |-> {},
                    hist |-> <<>>, enriched |-> EmptyRow, status |-> "running"] :
                     a \in BatchArgs, rs \in RowLists }

\* the most requests one row sends: one per identity service, one search
MaxRequests == 4

BatchFrame ==
    UNCHANGED <<env, fn, ident, retries, bases, idx, attempt, backoff, movies,
                result, last, nsleeps, slept, allDns, onlyFail, abandoned,
                prevBackoff, causes, row, arg, ret, ui>>

\* what the iteration for row k+1 makes of it
RowOutcome(o, ms) ==
    LET r == batch.rows[batch.k + 1]
    IN  IF batch.driver = "csv"
        THEN CsvRow(r, batch.refresh, batch.pre_match, o, ms)
        ELSE JfRow(r, ms)

\* the requests of row i, with the state of the file when they are sent
Sent(i, services, n) ==
    { [row |-> i, service |-> services[j], flushed |-> Len(batch.file),
       fsyncs |-> batch.fsyncs, synced |-> batch.synced] : j \in 1..n }

\* lines 952-993 (csv), 520-580 (jf): the iteration for row k+1 runs up to
\* out_row, sending the row's requests; an exception no handler catches ends
\* the run
Enrich(o, ms) ==
    /\ pc = "next_row"
    /\ \E out \in {RowOutcome(o, ms)} :
          /\ batch' =
                [batch EXCEPT
                   !.hist = Append(@, [how |-> out.how, ms |-> out.ms,
                                       match |-> out.match, cur_rank |-> out.cur_rank]),
                   !.reqs = @ \cup Sent(batch.k + 1, out.services, Len(out.services)),
                   !.enriched = out.fields,
                   !.status = IF out.raised THEN "raised" ELSE @]
          /\ pc' = IF out.raised THEN "ended" ELSE "enriched"
    /\ BatchFrame

\* KeyboardInterrupt while row k+1 is processed, after the first n of the
\* row's requests: the handler of lines 979-989 assigns enriched and raises
\* again (csv); nothing catches it (jf)
Interrupt(o, n) ==
    /\ pc = "next_row"
    /\ \E out \in {RowOutcome(o, <<>>)} :
          /\ out.how # "carried"
          /\ n <= Len(out.services)
          /\ batch' =
                [batch EXCEPT
                   !.hist = Append(@, [how |-> "interrupted", ms |-> <<>>,
                                       match |-> <<>>, cur_rank |-> out.cur_rank]),
                   !.reqs = @ \cup Sent(batch.k + 1, out.services, n),
                   !.enriched = IF batch.driver = "csv"
                                THEN batch.rows[batch.k + 1].old ELSE @,
                   !.status = "interrupted"]
    /\ pc' = "ended"
    /\ BatchFrame

\* lines 995-998 (csv), 580-582 and 541-542 (jf): the row is written and flushed
WriteRow ==
    /\ pc = "enriched"
    /\ batch' = [batch EXCEPT
                   !.file = FlushedRows(@, [index |-> batch.k + 1,
                                            fields |-> batch.enriched])]
    /\ pc' = "written"
    /\ BatchFrame

\* lines 999-1003 (csv), 583-586 and 543-547 (jf): os.fsync returns (ok) or
\* raises, which is ignored; the loop goes on to the next row or ends
Fsync(ok) ==
    /\ pc = "written"
    /\ batch' = [batch EXCEPT
                   !.fsyncs = @ + 1,
                   !.synced = IF ok THEN @ \cup {batch.k + 1} ELSE @,
                   !.k = @ + 1,
                   !.status = IF batch.k + 1 = Len(batch.rows) THEN "finished" ELSE @]
    /\ pc' = IF batch.k + 1 = Len(batch.rows) THEN "ended" ELSE "next_row"
    /\ BatchFrame

NextBatch ==
    \/ \E o \in BatchIdentities, ms \in BatchResults : Enrich(o, ms)
    \/ \E o \in BatchIdentities, n \in 0..MaxRequests : Interrupt(o, n)
    \/ WriteRow
    \/ \E ok \in BOOLEAN : Fsync(ok)

SpecBatch == InitBatch /\ [][NextBatch]_vars

(***************************************************************************)
(* Vocabulary of the properties of a batch run.                            *)
(***************************************************************************)
\* the iterations begun so far
Begun == 1..Len(batch.hist)

\* row i is in the output file
Written(i) == i <= Len(batch.file)

\* row i of the input carries enrichment data
CarriesEnrichment(i) ==
    LET old == batch.rows[i].old
    IN  old.yts_next_quality # "" \/ old.magnet # <<>> \/ old.yts_title # <<>>

\* a request was sent for row i
RequestedFor(i) == \E q \in batch.reqs : q.row = i

(***************************************************************************)
(* C22: in yts_lookup_from_csv, a row that already carries enrichment data *)
(* (a non-empty yts_next_quality, magnet or yts_title) while refresh is    *)
(* not set is written back with its six enrichment fields equal to their   *)
(* input values, and no request, to an identity service or to a mirror,    *)
(* is sent for that row.                                                   *)
(***************************************************************************)
C22_CarriedRowUntouched ==
    batch.driver = "csv" /\ ~ batch.refresh =>
        \A i \in Begun :
            CarriesEnrichment(i) =>
                /\ ~ RequestedFor(i)
                /\ batch.hist[i].how = "carried"
                /\ (Written(i) =>
                       /\ batch.file[i].index = i
                       /\ batch.file[i].fields = batch.rows[i].old)

\* a finished run of yts_lookup_from_csv without refresh has written back a row
\* that carried only yts_title, and has sent requests for another row
C22_Witness ==
    /\ batch.driver = "csv" /\ ~ batch.refresh /\ batch.status = "finished"
    /\ \E i \in Begun :
          /\ CarriesEnrichment(i)
          /\ batch.rows[i].old.yts_next_quality = ""
          /\ batch.file[i].fields = batch.rows[i].old
    /\ \E i \in Begun : RequestedFor(i)

\* processing row i raised an exception other than an interrupt
RaisedAt(i) == batch.hist[i].how \in {"task_raised", "fields_raised"}

(***************************************************************************)
(* C23: in both batch drivers, when processing a row raises an exception   *)
(* other than an interrupt, that row is written with all six enrichment    *)
(* fields empty and the run goes on with the following rows: no such       *)
(* exception ends the run.                                                 *)
(***************************************************************************)
C23_ExceptionGivesEmptyRow ==
    \A i \in Begun :
        RaisedAt(i) =>
            /\ batch.status # "raised"
            /\ (pc = "enriched" /\ i = batch.k + 1 => batch.enriched = EmptyRow)
            /\ (Written(i) => batch.file[i].fields = EmptyRow)

(***************************************************************************)
(* C24: when a KeyboardInterrupt arrives while yts_lookup_from_csv is      *)
(* processing row k, row k is written to the file and flushed, with its    *)
(* enrichment fields as they were in the input, before the interrupt ends  *)
(* the run.                                                                *)
(***************************************************************************)
C24_InterruptedRowWritten ==
    batch.driver = "csv" /\ batch.status = "interrupted" =>
        LET k == Len(batch.hist)
        IN  /\ Written(k)
            /\ batch.file[k].fields = batch.rows[k].old

\* the file holds rows 1..n of the input, in order and once each, where n is
\* the number k of iterations done, or k+1 between the flush and the fsync
HoldsPrefix ==
    /\ \A i \in 1..Len(batch.file) : batch.file[i].index = i
    /\ Len(batch.file) = IF pc = "written" THEN batch.k + 1 ELSE batch.k

(***************************************************************************)
(* C25 as stated: at every point of a run, the data rows of the output     *)
(* file are exactly input rows 1..k in input order, each once, k being     *)
(* the number of rows completed; and row k is written, flushed and         *)
(* fsynced before any request for row k+1 is sent.                         *)
(***************************************************************************)
C25_PrefixPersistedAndFsynced ==
    /\ HoldsPrefix
    /\ \A q \in batch.reqs :
          /\ q.flushed = q.row - 1
          /\ q.synced = 1..(q.row - 1)

(***************************************************************************)
(* C25, amended: at every point of a run, the data rows of the output file *)
(* are exactly input rows 1..k in input order, each once, k being the      *)
(* number of rows completed; and before any request for row k+1 is sent,   *)
(* row k is written and flushed and os.fsync has been called for it (its   *)
(* error, if any, is ignored).                                             *)
(***************************************************************************)
C25_PrefixFlushedFsyncCalled ==
    /\ HoldsPrefix
    /\ \A q \in batch.reqs :
          /\ q.flushed = q.row - 1
          /\ q.fsyncs = q.row - 1

\* a run ended by an interrupt after a request for row 2 that was sent with
\* row 1 written and flushed, its fsync having raised
C25_Witness ==
    /\ batch.status = "interrupted"
    /\ Len(batch.file) >= 1
    /\ \E q \in batch.reqs :
          q.row = 2 /\ q.flushed = 1 /\ q.fsyncs = 1 /\ q.synced = {}

\* iteration i matched a candidate and computed its fields
MatchedAt(i) == batch.hist[i].how = "matched"

\* the release variants of the candidate matched for row i
VariantsAt(i) == batch.hist[i].match[1].torrents

\* the 'label.kind' pairs of the candidate matched for row i
PairsAt(i) ==
    { <<Get(VariantsAt(i)[j], "quality", ""), Get(VariantsAt(i)[j], "type", "")>> :
        j \in 1..Len(VariantsAt(i)) }

Reverse(s) == [j \in 1..Len(s) |-> s[Len(s) + 1 - j]]

(***************************************************************************)
(* C26: for every matched row, in both batch drivers, the available-       *)
(* qualities field written is the set of 'label.kind' pairs of the matched *)
(* candidate's release variants: each pair appears exactly once, no other  *)
(* pair appears, and the value does not depend on the order of the         *)
(* variants in the candidate.                                              *)
(***************************************************************************)
C26_AvailableIsSetOfPairs ==
    \A i \in Begun :
        MatchedAt(i) /\ Written(i) =>
            LET f == batch.file[i].fields.yts_quality_available
                m == batch.hist[i].match[1]
                reversed == [m EXCEPT !.torrents = Reverse(@)]
            IN  /\ Range(f) = PairsAt(i)
                /\ Len(f) = Cardinality(PairsAt(i))
                /\ f = EnrichedFields(reversed, batch.hist[i].cur_rank,
                                      batch.driver).yts_quality_available

(***************************************************************************)
(* C27: every input row produces exactly one output row, and a row that is *)
(* processed and finds no match (an empty candidate list included) is      *)
(* written with all six enrichment fields empty; being unmatched is never  *)
(* an error.                                                               *)
(***************************************************************************)
C27_OneRowEachUnmatchedEmpty ==
    /\ \A i \in 1..Len(batch.file) : batch.file[i].index = i
    /\ (pc = "ended" /\ batch.status # "interrupted" =>
            Len(batch.file) = Len(batch.rows))
    /\ \A i \in Begun :
          RequestedFor(i) /\ batch.hist[i].ms = <<>>
              /\ batch.hist[i].how # "interrupted" =>
                 /\ batch.hist[i].how = "nomatch"
                 /\ (Written(i) => batch.file[i].fields = EmptyRow)

\* no release variant of the candidate matched for row i ranks above the copy
\* already owned
NoUpgradeAt(i) ==
    \A j \in 1..Len(VariantsAt(i)) :
        QUALITY_RANK(LowerStr(Get(VariantsAt(i)[j], "quality", "")))
            <= batch.hist[i].cur_rank

(***************************************************************************)
(* C28 as stated: for a processed row, all six enrichment fields are empty *)
(* whenever no match exists or no upgrade exists for the matched           *)
(* candidate.                                                              *)
(***************************************************************************)
C28_EmptyWithoutMatchOrUpgrade ==
    \A i \in Begun :
        /\ Written(i)
        /\ \/ batch.hist[i].how = "nomatch"
           \/ MatchedAt(i) /\ NoUpgradeAt(i)
        => batch.file[i].fields = EmptyRow

(***************************************************************************)
(* C28, amended: for a processed row with no match all six enrichment      *)
(* fields are empty; for a row matched to a candidate without an upgrade   *)
(* the next quality and the locator are empty, while the matched title,    *)
(* year, URL and available qualities are those of the candidate.           *)
(***************************************************************************)
C28_EmptyWithoutMatch ==
    \A i \in Begun :
        Written(i) =>
            LET f == batch.file[i].fields
            IN  /\ (batch.hist[i].how = "nomatch" => f = EmptyRow)
                /\ (MatchedAt(i) /\ NoUpgradeAt(i) =>
                       LET m == batch.hist[i].match[1]
                       IN  /\ f.yts_next_quality = ""
                           /\ f.magnet = <<>>
                           /\ f.yts_title = m.title
                           /\ f.yts_url = m.url
                           /\ f.yts_year \in {<<m.year>>, <<>>}
                           /\ Range(f.yts_quality_available) = PairsAt(i))

\* a row matched to a candidate that has variants but no upgrade is written
\* with the candidate's title, and another row without a match is written empty
C28_Witness ==
    /\ \E i \in Begun :
          /\ MatchedAt(i) /\ NoUpgradeAt(i) /\ Written(i)
          /\ VariantsAt(i) # <<>>
          /\ batch.file[i].fields.yts_title # <<>>
          /\ batch.file[i].fields.yts_next_quality = ""
    /\ \E i \in Begun :
          /\ batch.hist[i].how = "nomatch" /\ Written(i)
          /\ batch.file[i].fields = EmptyRow

(***************************************************************************)
(* Calls of task alone (lines 850-880), up to its call of yts_search: the  *)
(* row's title and year, the pre-match mode, whether the keys are set, and *)
(* what each identity service would get.                                   *)
(***************************************************************************)
ServiceOutcomes ==
    { Failed(k) : k \in FailKinds }
    \cup { [kind |-> "found", title |-> <<"A", "c">>, year |-> 2021, id |-> <<"tt9">>],
           [kind |-> "found", title |-> <<"A", "c">>, year |-> 0, id |-> <<>>],
           [kind |-> "found", title |-> <<"A", "B">>, year |-> 0, id |-> <<>>],
           [kind |-> "found", title |-> <<>>, year |-> 0, id |-> <<"tt8">>] }

PreMatchModes == {"", "none", "tmdb", "omdb", "imdb-suggest", "auto"}

\* _build_query: the query text, the year being one more word
_build_query(title, year) ==
    IF year # 0 THEN title \o <<" ", year>> ELSE title

InitPreMatch ==
    /\ NoSearch
    /\ batch = NoBatch
    /\ ui = NoUi
    /\ pc = "task"
    /\ arg \in [title : {<<>>, <<"A", "b">>}, year : {0, 2020},
                pre_match : PreMatchModes, tmdb_key : BOOLEAN, omdb_key : BOOLEAN,
                o : [tmdb : ServiceOutcomes, omdb : ServiceOutcomes,
                     imdb : ServiceOutcomes]]
    /\ ret = <<>>

\* lines 856-874: the identity services are consulted
RunPreMatch ==
    /\ pc = "task"
    /\ ret' = <<PreMatch(arg.title, arg.year, arg.pre_match, arg.tmdb_key,
                         arg.omdb_key, arg.o)>>
    /\ pc' = "prematched"
    /\ UNCHANGED <<env, fn, ident, retries, bases, idx, attempt, backoff, movies,
                   result, last, nsleeps, slept, allDns, onlyFail, abandoned,
                   prevBackoff, causes, row, arg, batch, ui>>

\* line 875 and lines 176-182: yts_search is called with best_title and
\* best_year and builds its query; imdb_id stays with task for the selection
MainSearch ==
    /\ pc = "prematched"
    /\ ret' = Append(ret, [title |-> ret[1].title, year |-> ret[1].year,
                           query_term |-> _build_query(_sanitize_title(ret[1].title),
                                                       ret[1].year),
                           imdb_id |-> ret[1].imdb_id])
    /\ pc' = "searching"
    /\ UNCHANGED <<env, fn, ident, retries, bases, idx, attempt, backoff, movies,
                   result, last, nsleeps, slept, allDns, onlyFail, abandoned,
                   prevBackoff, causes, row, arg, batch, ui>>

NextPreMatch == RunPreMatch \/ MainSearch

SpecPreMatch == InitPreMatch /\ [][NextPreMatch]_vars

(***************************************************************************)
(* Vocabulary of the properties of the pre-match.                          *)
(***************************************************************************)
\* the pre-match has run
PreMatched == pc \in {"prematched", "searching"}

ServiceRank(name) ==
    CASE name = "tmdb" -> 1 [] name = "omdb" -> 2 [] name = "imdb-suggest" -> 3

\* what the named service gets for the row; imdb-suggest gets nothing for an
\* empty title
GotBy(name) ==
    CASE name = "tmdb" -> arg.o.tmdb
      [] name = "omdb" -> arg.o.omdb
      [] name = "imdb-suggest" ->
            IF arg.title = <<>> THEN Failed("noresults") ELSE arg.o.imdb

\* the external ID the named service yields (<<>>: none)
IdBy(name) == IF GotBy(name).kind = "found" THEN GotBy(name).id ELSE <<>>

\* the title and the year the named service yields with an ID
TitleBy(name) == IF GotBy(name).title # <<>> THEN GotBy(name).title ELSE arg.title

YearBy(name) == IF GotBy(name).year # 0 THEN GotBy(name).year ELSE arg.year

(***************************************************************************)
(* C29: in pre-match mode 'auto' the identity services are consulted in    *)
(* the order tmdb, omdb, imdb-suggest; as soon as one of them yields a     *)
(* non-empty external ID no later service is consulted for the row, and    *)
(* the main search then runs with that service's title, year and ID.       *)
(***************************************************************************)
C29_AutoStopsAtFirstId ==
    PreMatched /\ arg.pre_match = "auto" =>
        LET p == ret[1]
            c == p.consulted
        IN  /\ \A a, b \in 1..Len(c) : a < b => ServiceRank(c[a]) < ServiceRank(c[b])
            /\ \A j \in 1..Len(c) :
                  IdBy(c[j]) # <<>> =>
                     /\ j = Len(c)
                     /\ p.title = TitleBy(c[j])
                     /\ p.year = YearBy(c[j])
                     /\ p.imdb_id = IdBy(c[j])
                     /\ (pc = "searching" =>
                            /\ ret[2].title = TitleBy(c[j])
                            /\ ret[2].year = YearBy(c[j])
                            /\ ret[2].imdb_id = IdBy(c[j]))
            /\ ((\A j \in 1..Len(c) : IdBy(c[j]) = <<>>) =>
                   /\ c # <<>>
                   /\ c[Len(c)] = "imdb-suggest"
                   /\ p.imdb_id = <<>>)

\* mode 'auto' with both keys: tmdb yields no ID, omdb yields one, imdb-suggest
\* is not consulted, and the search is called with what omdb gave
C29_Witness ==
    /\ pc = "searching" /\ arg.pre_match = "auto"
    /\ ret[1].consulted = <<"tmdb", "omdb">>
    /\ IdBy("tmdb") = <<>>
    /\ ret[2].imdb_id = <<"tt9">>
    /\ ret[2].title = <<"A", "c">>
    /\ ret[2].title # arg.title
    /\ IdBy("imdb-suggest") # <<>>

\* the named service fails: its request raised, got an error status or got no
\* results
FailedBy(name) == GotBy(name).kind \in FailKinds

(***************************************************************************)
(* C30: when every identity service consulted for a row fails (network     *)
(* error, error status or no results), the row does not fail: the main     *)
(* search is still issued, with the row's original title and year and      *)
(* with no external ID.                                                    *)
(***************************************************************************)
C30_FailedServicesKeepInput ==
    PreMatched /\ (\A j \in 1..Len(ret[1].consulted) : FailedBy(ret[1].consulted[j])) =>
        /\ ret[1].title = arg.title
        /\ ret[1].year = arg.year
        /\ ret[1].imdb_id = <<>>
        /\ (pc = "searching" =>
               /\ ret[2].title = arg.title
               /\ ret[2].year = arg.year
               /\ ret[2].imdb_id = <<>>
               /\ ret[2].query_term = _build_query(_sanitize_title(arg.title), arg.year))

\* mode 'auto' with both keys: the three services were consulted and failed,
\* each in its own way, and the search is called with the row's title and year
C30_Witness ==
    /\ pc = "searching"
    /\ ret[1].consulted = <<"tmdb", "omdb", "imdb-suggest">>
    /\ arg.o.tmdb.kind = "neterr"
    /\ arg.o.omdb.kind = "status"
    /\ arg.o.imdb.kind = "noresults"
    /\ arg.title # <<>> /\ arg.year # 0
    /\ ret[2].title = arg.title /\ ret[2].year = arg.year /\ ret[2].imdb_id = <<>>

(***************************************************************************)
(* Calls of _rank_from_height as the Jellyfin driver makes them (lines     *)
(* 524-532), followed by the resolution of the upgrade with the rank       *)
(* obtained (line 568).  A missing height (None) is 0.                     *)
(***************************************************************************)
Heights == {0, 1, 480, 719, 720, 1079, 1080, 1439, 1440, 2159, 2160, 4320}

\* the candidates of these calls offer at most two variants
HeightTorrentLists == {ts \in TorrentLists : Len(ts) <= 2}

InitHeight ==
    /\ NoSearch
    /\ batch = NoBatch
    /\ ui = NoUi
    /\ pc = "height"
    /\ \E h \in Heights, ts \in HeightTorrentLists, r \in Ratings :
          arg = [height |-> h,
                 match |-> [id |-> 1, title |-> <<"a">>, year |-> 2020, url |-> "u1",
                            torrents |-> ts, rating |-> r, imdb_code |-> <<>>]]
    /\ ret = <<>>

\* line 532: cur_rank = _rank_from_height(height)
RankFromHeight ==
    /\ pc = "height"
    /\ ret' = <<_rank_from_height(arg.height)>>
    /\ pc' = "ranked"
    /\ UNCHANGED <<env, fn, ident, retries, bases, idx, attempt, backoff, movies,
                   result, last, nsleeps, slept, allDns, onlyFail, abandoned,
                   prevBackoff, causes, row, arg, batch, ui>>

\* line 568: next_q, tor = _choose_next_quality(match, cur_rank)
OfferUpgrade ==
    /\ pc = "ranked"
    /\ ret' = Append(ret, _choose_next_quality(arg.match, ret[1]))
    /\ pc' = "offered"
    /\ UNCHANGED <<env, fn, ident, retries, bases, idx, attempt, backoff, movies,
                   result, last, nsleeps, slept, allDns, onlyFail, abandoned,
                   prevBackoff, causes, row, arg, batch, ui>>

NextHeight == RankFromHeight \/ OfferUpgrade

SpecHeight == InitHeight /\ [][NextHeight]_vars

\* the quality labels that have a nominal height, and that height
NominalLabels == {"480p", "720p", "1080p", "1440p", "2160p", "4k", "uhd"}

NominalHeight(q) ==
    CASE q = "480p"  -> 480
      [] q = "720p"  -> 720
      [] q = "1080p" -> 1080
      [] q = "1440p" -> 1440
      [] q \in {"2160p", "4k", "uhd"} -> 2160

\* the rank the buckets give to a height, in tenths
BucketRank(h) ==
    IF h >= 2160 THEN 30
    ELSE IF h >= 1440 THEN 25
    ELSE IF h >= 1080 THEN 20
    ELSE IF h >= 720 THEN 10
    ELSE 0

(***************************************************************************)
(* C31: the rank computed from an explicit height is 3 from 2160 up, 2.5   *)
(* for 1440..2159, 2 for 1080..1439, 1 for 720..1079 and 0 below or when   *)
(* the height is missing; it never decreases when the height grows; the    *)
(* nominal height of every ranked label gets that label's QUALITY_RANK; so *)
(* for a file whose height reaches the nominal height of a label, the      *)
(* upgrade offered is never that label nor one of its rank or below.       *)
(***************************************************************************)
C31_RankFromHeightBuckets ==
    /\ (pc \in {"ranked", "offered"} => ret[1] = BucketRank(arg.height))
    /\ \A h1, h2 \in Heights :
          h1 <= h2 => _rank_from_height(h1) <= _rank_from_height(h2)
    /\ \A q \in NominalLabels :
          _rank_from_height(NominalHeight(q)) = QUALITY_RANK(q)
    /\ (pc = "offered" /\ ret[2][1] # "" =>
          \A q \in NominalLabels :
             arg.height >= NominalHeight(q) =>
                /\ LowerStr(ret[2][1]) # q
                /\ QUALITY_RANK(LowerStr(ret[2][1])) > QUALITY_RANK(q))

C31_Witness ==
    /\ pc = "offered"
    /\ arg.height = 1440 /\ ret[1] = 25
    /\ ret[2][1] = "2160p"
    /\ \E i \in 1..Len(arg.match.torrents) : arg.match.torrents[i].quality = "1440p"

(***************************************************************************)
(* Calls of yts_search whose history counts the requests.  Every request   *)
(* comes to an outcome (the timeout argument bounds each one).             *)
(***************************************************************************)
InitBudget ==
    /\ env \in SearchEnvs
    /\ fn = "yts_search"
    /\ ident = TRUE
    /\ retries \in 0..MaxRetries
    /\ pc = "init"
    /\ bases = <<>>
    /\ idx = 0
    /\ attempt = 0
    /\ backoff = 0
    /\ movies = <<>>
    /\ result = <<>>
    /\ last = [NoRequest EXCEPT !.count = 0]
    /\ nsleeps = 0
    /\ slept = 0
    /\ allDns = TRUE
    /\ onlyFail = TRUE
    /\ abandoned = {}
    /\ prevBackoff = 0
    /\ causes = {}
    /\ row = EmptyRow
    /\ batch = NoBatch
    /\ ui = NoUi
    /\ arg = <<>>
    /\ ret = <<>>

SpecBudget == InitBudget /\ [][Next]_vars

\* the number of steps the call can still take before it returns: the
\* requests left on the current mirror and on the mirrors after it
StepsLeft ==
    CASE pc = "init" -> 1 + Len(_yts_bases(env)) * (retries + 1)
      [] pc = "loop" -> (Len(bases) - idx) * (retries + 1) + (retries + 1 - attempt)
      [] OTHER       -> 0

(***************************************************************************)
(* C32: whatever the outcomes of the requests, a query returns: until it   *)
(* has returned, every step strictly lowers a count of steps left that is  *)
(* never negative, and the call is never anywhere but in its loop.  It     *)
(* issues at most retries + 1 requests to one mirror (retries after a      *)
(* failure and after a slow success count alike) and at most               *)
(* |mirrors| * (retries + 1) requests in all.                              *)
(***************************************************************************)
C32_TerminatesWithinBudget ==
    /\ [][Requested =>
            /\ last'.count = last.count + 1
            /\ last'.attempt = IF last'.mirror = last.mirror
                               THEN last.attempt + 1 ELSE 1]_vars
    /\ [](last.attempt <= retries + 1)
    /\ [](last.count <= Len(bases) * (retries + 1))
    /\ [](StepsLeft >= 0 /\ (pc \in {"init", "loop"} \/ Returned))
    /\ [][~ Returned => StepsLeft' < StepsLeft]_vars

C32_Witness ==
    /\ pc = "done"
    /\ retries = MaxRetries
    /\ Len(bases) > Len(_YTS_DEFAULT_BASES)
    /\ last.count = Len(bases) * (retries + 1)
    /\ causes = {"error", "slow"}

(***************************************************************************)
(* C33: a candidate list obtained from a valid response is never lost:     *)
(* once some request of the call was answered by a 2xx response whose JSON *)
(* was parsed into a candidate list, the call returns a list parsed from   *)
(* such a response, whatever happens to the later requests.                *)
(***************************************************************************)
C33_ValidListNeverLost ==
    Returned /\ fn \in {"yts_search", "yts_search_by_imdb"} /\ last.parsed # {} =>
        result \in last.parsed

(***************************************************************************)
(* C34: a valid response that took less than slow_after and holds no       *)
(* candidate ends the call at once: the empty list (None in                *)
(* yts_movie_details) is returned, the mirror is not abandoned and no      *)
(* request follows, to this mirror or to a later one.  An empty result     *)
(* thus comes from a working mirror as well as from exhaustion.            *)
(***************************************************************************)
C34_FastEmptyValidEndsQuery ==
    /\ [](IsValid2xx(last.resp) /\ ~ last.resp.slow
            /\ Candidates(fn, last.resp) = <<>> =>
               /\ Returned /\ result = <<>>
               /\ last.mirror \notin abandoned
               /\ abandoned = 1..(last.mirror - 1))
    /\ [][IsValid2xx(last.resp) /\ ~ last.resp.slow
            /\ Candidates(fn, last.resp) = <<>> => ~ Requested]_vars

C34_Witness ==
    /\ pc = "done" /\ result = <<>>
    /\ IsValid2xx(last.resp) /\ ~ last.resp.slow
    /\ Candidates(fn, last.resp) = <<>>
    /\ last.mirror = 1 /\ last.attempt = 1 /\ abandoned = {}
    /\ Len(bases) > 1 /\ retries = MaxRetries

\* row i was processed: searched and matched or not, or emptied by process_one
ProcessedAt(i) == batch.hist[i].how \in {"matched", "nomatch", "task_raised"}

\* the content hash a locator embeds: what follows urn:btih:
HashOf(magnet) == magnet[3]

(***************************************************************************)
(* C35: in every row written after processing, by either driver, the       *)
(* magnet field is non-empty exactly when the next-quality field is, and a *)
(* non-empty magnet embeds the hash of the very variant that               *)
(* _choose_next_quality returns for the row's matched candidate and        *)
(* current rank, under the title of that candidate.                        *)
(***************************************************************************)
C35_MagnetIffNextQuality ==
    \A i \in Begun :
        Written(i) /\ ProcessedAt(i) =>
            LET f == batch.file[i].fields
            IN  /\ (f.magnet # <<>>) <=> (f.yts_next_quality # "")
                /\ (f.magnet # <<>> =>
                      /\ MatchedAt(i)
                      /\ \E next \in {_choose_next_quality(batch.hist[i].match[1],
                                                           batch.hist[i].cur_rank)} :
                            /\ next[2] # NoTorrent
                            /\ f.yts_next_quality = next[1]
                            /\ f.magnet[1] = "magnet:?xt=" /\ f.magnet[2] = "urn:btih:"
                            /\ HashOf(f.magnet) = next[2][1].hash)

\* a run has written a row whose locator carries the hash of the candidate's
\* second variant, and a matched row without next quality and locator
C35_Witness ==
    /\ \E i \in Begun :
          /\ Written(i) /\ MatchedAt(i)
          /\ batch.file[i].fields.magnet # <<>>
          /\ HashOf(batch.file[i].fields.magnet) = "h2"
          /\ VariantsAt(i)[1].hash = "h1"
          /\ batch.file[i].fields.yts_next_quality = "2160p"
    /\ \E i \in Begun :
          /\ Written(i) /\ MatchedAt(i)
          /\ VariantsAt(i) # <<>>
          /\ batch.file[i].fields.magnet = <<>>
          /\ batch.file[i].fields.yts_next_quality = ""

(***************************************************************************)
(* The candidate objects across the selection and the resolution of the    *)
(* upgrade: arg.ms holds the list yts_search returned as the calls leave   *)
(* it, arg.given the same list as it was returned (history); ret.k is the  *)
(* position of the candidate selected (0: None).                           *)
(***************************************************************************)
T1080blu == [quality |-> "1080p", type |-> "bluray", hash |-> "h2"]

T2160web == [quality |-> "2160p", type |-> "web", hash |-> "h4"]

FrameCandidates ==
    { [id |-> 1, title |-> <<"a", "b">>, year |-> 2020, url |-> "u1",
       torrents |-> <<T1080web, T1080blu, T720web>>, rating |-> 80,
       imdb_code |-> <<"tt1">>],
      [id |-> 2, title |-> <<"a", "c">>, year |-> 2019, url |-> "u2",
       torrents |-> <<T720web, T2160web, T2160blu>>, rating |-> 65,
       imdb_code |-> <<"tt2">>],
      [id |-> 3, title |-> <<"a", "b">>, year |-> 0, url |-> "u3",
       torrents |-> <<>>, rating |-> 80, imdb_code |-> <<>>],
      [id |-> 4, title |-> <<"c">>, year |-> 2020, url |-> "u4",
       torrents |-> <<T2160blu, T1080web>>, rating |-> 90, imdb_code |-> <<>>] }

FrameLists == UNION { [1..n -> FrameCandidates] : n \in 0..2 }

InitFrame ==
    /\ NoSearch
    /\ batch = NoBatch
    /\ ui = NoUi
    /\ pc = "call"
    /\ \E ms \in FrameLists, t \in QueryTitles, y \in QueryYears, c \in CurrentRanks :
          arg = [ms |-> ms, given |-> ms, title |-> t, year |-> y, cur_rank |-> c]
    /\ ret = <<>>

\* the list movies after _best_match: lines 597-613 build a new list
\* (same_year) and call max; movies and its elements are only read
MoviesAfterBestMatch(ms) == ms

\* variant that sorts the torrents of the candidate itself, bluray first
MatchAfterChooseSortedInPlace(match) ==
    LET NotBluray(t) == ~ IsBluray(t)
    IN  [match EXCEPT !.torrents = SelectSeq(@, IsBluray) \o SelectSeq(@, NotBluray)]

\* the candidate after _choose_next_quality: lines 774-781 append the
\* torrents to lists that setdefault creates and sort those lists;
\* match, match.torrents and the torrents themselves are only read
MatchAfterChoose(match) == match

\* match = _best_match(movies, title, year)
SelectCandidate ==
    /\ pc = "call"
    /\ \E best \in {_best_match(arg.ms, arg.title, arg.year)} :
          ret' = [k |-> IF best = <<>> THEN 0
                        ELSE CHOOSE i \in 1..Len(arg.ms) : arg.ms[i] = best[1],
                  next |-> <<>>]
    /\ arg' = [arg EXCEPT !.ms = MoviesAfterBestMatch(@)]
    /\ pc' = "selected"
    /\ UNCHANGED <<env, fn, ident, retries, bases, idx, attempt, backoff, movies,
                   result, last, nsleeps, slept, allDns, onlyFail, abandoned,
                   prevBackoff, causes, row, batch, ui>>

\* next_q, next_t = _choose_next_quality(match, cur_rank), match not being None
ResolveUpgrade ==
    /\ pc = "selected"
    /\ ret.k > 0
    /\ ret' = [ret EXCEPT !.next = _choose_next_quality(arg.ms[ret.k], arg.cur_rank)]
    /\ arg' = [arg EXCEPT !.ms[ret.k] = MatchAfterChoose(@)]
    /\ pc' = "resolved"
    /\ UNCHANGED <<env, fn, ident, retries, bases, idx, attempt, backoff, movies,
                   result, last, nsleeps, slept, allDns, onlyFail, abandoned,
                   prevBackoff, causes, row, batch, ui>>

NextFrame == SelectCandidate \/ ResolveUpgrade

SpecFrame == InitFrame /\ [][NextFrame]_vars

Classify(f, r) ==
    LET o == TryOutcome(f, r)
    IN  CASE o.tag = "raise" /\ _is_dns_error(o.chain) -> "dns"
          [] o.tag = "raise" /\ ~ _is_dns_error(o.chain) -> "error"
          [] o.tag = "nojson" -> "nojson"
          [] o.tag = "parsed" /\ r.slow -> "slow"
          [] o.tag = "parsed" /\ ~ r.slow -> "fast"

\* the position of a call: where it is, the mirror and the attempts made on
\* it, the next delay, and the sleep made after the latest request
Control == [pc |-> pc, idx |-> idx, attempt |-> attempt, backoff |-> backoff,
            slept |-> slept]

\* the machine's step for an outcome of class c at mirror i of n, after a
\* earlier requests to that mirror, with next delay b: Success, FailoverNext
\* or RetrySame(backoff)
Machine(c, i, a, b, rt, n) ==
    LET Stop == [pc |-> "done", idx |-> i, attempt |-> a + 1, backoff |-> b,
                 slept |-> 0]
        FailoverNext ==
            IF i < n
            THEN [pc |-> "loop", idx |-> i + 1, attempt |-> 0,
                  backoff |-> InitialBackoff, slept |-> 0]
            ELSE Stop
        RetrySame == [pc |-> "loop", idx |-> i, attempt |-> a + 1,
                      backoff |-> 2 * b, slept |-> b]
    IN  CASE c \in {"dns", "nojson"} -> FailoverNext
          [] c = "error" -> IF a + 1 <= rt THEN RetrySame ELSE FailoverNext
          [] c = "slow"  -> IF a + 1 <= rt THEN RetrySame ELSE Stop
          [] c = "fast"  -> Stop

\* every request goes to the current mirror and leaves the call where the
\* machine says, for the class of its outcome
FollowsMachine ==
    Requested =>
        /\ last'.mirror = idx
        /\ Control' = Machine(Classify(fn, last'.resp), idx, attempt, backoff,
                              retries, Len(bases))

\* the call starts at the first mirror of the registry
StartsMachine ==
    /\ pc' = "loop" /\ bases' = _yts_bases(env)
    /\ idx' = 1 /\ attempt' = 0 /\ backoff' = InitialBackoff
    /\ ~ Requested

(***************************************************************************)
(* C37 as stated: yts_search, yts_search_by_imdb (for a non-empty ID) and  *)
(* yts_movie_details implement the same failover machine: with the same    *)
(* retries and the same sequence of classified outcomes they request the   *)
(* same mirrors in the same order, sleep the same backoffs and stop at the *)
(* same step.                                                              *)
(***************************************************************************)
C37_ThreeClientsOneMachine ==
    /\ [][pc = "init" /\ (fn = "yts_search_by_imdb" => ident) => StartsMachine]_vars
    /\ [][FollowsMachine]_vars

(***************************************************************************)
(* C37, amended: yts_search, and yts_search_by_imdb and yts_movie_details  *)
(* each for a non-empty ID or identifier, implement the same failover      *)
(* machine: they start at the first mirror of the same registry and every  *)
(* request leaves them where the one machine says for the class of its     *)
(* outcome; with an empty identifier yts_movie_details returns None        *)
(* without any request, as yts_search_by_imdb does with an empty ID.       *)
(***************************************************************************)
C37_ClientsWithIdOneMachine ==
    /\ [][pc = "init" /\ ident => StartsMachine]_vars
    /\ [][pc = "init" /\ ~ ident =>
            pc' = "done" /\ result' = <<>> /\ ~ Requested]_vars
    /\ [][FollowsMachine]_vars

\* yts_movie_details has returned the answer of the second mirror, a document
\* the other two clients fail to parse, after all attempts on the first
C37_Witness ==
    /\ fn = "yts_movie_details" /\ ident
    /\ pc = "done" /\ retries = MaxRetries
    /\ last.mirror = 2 /\ prevBackoff = InitialBackoff * Pow2(MaxRetries)
    /\ last.resp.body = "obj_noid"
    /\ Classify("yts_search", last.resp) = "error"
    /\ Classify(fn, last.resp) = "fast"

(***************************************************************************)
(* C38: in a run of yts_lookup_from_csv with refresh set no row is carried *)
(* over; a row whose new search gives no match (the mirrors exhausted      *)
(* included) or whose task raised is written with its six enrichment       *)
(* fields empty, whatever it carried before; a written row that was not    *)
(* matched keeps non-empty prior enrichment only when the outer exception  *)
(* handler (or the interrupt handler) made it.                             *)
(***************************************************************************)
C38_RefreshNoMatchClearsRow ==
    batch # NoBatch /\ batch.driver = "csv" /\ batch.refresh =>
        \A i \in Begun :
            /\ batch.hist[i].how # "carried"
            /\ Written(i) =>
                  LET how == batch.hist[i].how
                      f   == batch.file[i].fields
                      old == batch.rows[i].old
                  IN  /\ (how \in {"nomatch", "task_raised"} => f = EmptyRow)
                      /\ (how = "nomatch" => RequestedFor(i))
                      /\ (f = old /\ old # EmptyRow /\ how # "matched" =>
                             how \in {"fields_raised", "interrupted"})

\* a refresh run has written empty a row that carried full enrichment and
\* found no match, and one that carried it and whose task raised
C38_Witness ==
    /\ batch # NoBatch /\ batch.driver = "csv" /\ batch.refresh
    /\ \E i \in Begun :
          /\ Written(i) /\ batch.hist[i].how = "nomatch"
          /\ batch.rows[i].old = OldFull
          /\ batch.file[i].fields = EmptyRow
    /\ \E i \in Begun :
          /\ Written(i) /\ batch.hist[i].how = "task_raised"
          /\ batch.rows[i].old = OldFull
          /\ batch.file[i].fields = EmptyRow

(***************************************************************************)
(* The browser of search results (src/yts_ui.py, class _YTSBrowser).  The  *)
(* application's thread runs the key bindings; every request of a detail   *)
(* starts a worker thread that runs _load_detail (lines 150, 155:          *)
(* run_worker(..., thread=True), workers are not exclusive).  The record   *)
(* ui holds the widgets' fields the handlers assign:                       *)
(*   spinner   spinner.display                                            *)
(*   table     table.display (visible is assigned the same value)         *)
(*   detail    detail_summary.display and detail_torrents.display         *)
(*   shown     the rows of detail_summary (<<>>: cleared)                 *)
(*   panel     the text of detail_panel                                   *)
(*   focus     the focused widget                                         *)
(*   in_detail the flag in_detail                                         *)
(*   cursor    the row of the table's cursor                              *)
(*   running   the application has not exited                            *)
(*   workers   the worker threads that have not finished _load_detail     *)
(*   backed    history: back was pressed while the spinner was displayed  *)
(*             and no detail was requested since                          *)
(* A worker is at "fetch" (line 212 has not returned), at "stop" (line 213 *)
(* is next) or at "show" (line 214 is next); its movie is what             *)
(* fetch_detail returned (None is <<>>).                                   *)
(***************************************************************************)
\* the keys of the rows of the result list (run_yts_ui returns before the
\* browser starts when the list is empty, lines 21-23)
RowKeys == {"k1", "k2"}

\* the most worker threads alive at once
MaxWorkers == 2

PanelSelect == "Select a movie and press Enter to view details"

PanelNone == "No detail available"

PanelBack == "Press b to go back, q to quit"

\* lines 34-44, 46-92: the widgets after compose and on_mount
InitUi ==
    /\ NoSearch
    /\ batch = NoBatch
    /\ pc = "ui"
    /\ arg = <<>>
    /\ ret = <<>>
    /\ ui = [spinner |-> FALSE, table |-> TRUE, detail |-> FALSE, shown |-> <<>>,
             panel |-> PanelSelect, focus |-> "table", in_detail |-> FALSE,
             cursor |-> "k1", running |-> TRUE, workers |-> <<>>,
             backed |-> FALSE]

UiFrame ==
    UNCHANGED <<env, fn, ident, retries, pc, bases, idx, attempt, backoff, movies,
                result, last, nsleeps, slept, allDns, onlyFail, abandoned,
                prevBackoff, causes, row, arg, ret, batch>>

\* lines 157-169: _start_spinner
_start_spinner(u) ==
    [u EXCEPT !.spinner = TRUE, !.panel = "", !.detail = FALSE, !.shown = <<>>]

\* lines 145-150 (and 152-155): Enter requests the detail of the cursor's row
action_show_detail ==
    /\ pc = "ui"
    /\ ui.running
    /\ Len(ui.workers) < MaxWorkers
    /\ ui' = [_start_spinner(ui) EXCEPT
                !.workers = Append(ui.workers,
                                   [row_key |-> ui.cursor, at |-> "fetch",
                                    movie |-> <<>>]),
                !.backed = FALSE]
    /\ UiFrame

\* lines 94-126: b
action_back ==
    /\ pc = "ui"
    /\ ui.running
    /\ ui' = IF ui.spinner
             THEN [ui EXCEPT !.spinner = FALSE, !.table = TRUE, !.focus = "table",
                             !.backed = TRUE]
             ELSE IF ~ ui.in_detail
             THEN [ui EXCEPT !.running = FALSE]
             ELSE [ui EXCEPT !.table = TRUE, !.focus = "table",
                             !.panel = PanelSelect, !.detail = FALSE,
                             !.shown = <<>>, !.spinner = FALSE,
                             !.in_detail = FALSE]
    /\ UiFrame

\* the arrow keys move the cursor of the focused result list
MoveCursor ==
    /\ pc = "ui"
    /\ ui.running
    /\ ui.table
    /\ ui.focus = "table"
    /\ \E k \in RowKeys \ {ui.cursor} : ui' = [ui EXCEPT !.cursor = k]
    /\ UiFrame

\* line 212 in a worker: fetch_detail returns the movie of the row or None
\* (lines 294-304)
FetchDetail(w) ==
    /\ pc = "ui"
    /\ ui.running
    /\ w \in 1..Len(ui.workers)
    /\ ui.workers[w].at = "fetch"
    /\ \E movie \in {<<>>, <<ui.workers[w].row_key>>} :
          ui' = [ui EXCEPT !.workers[w].at = "stop", !.workers[w].movie = movie]
    /\ UiFrame

\* line 213 in a worker: _stop_spinner (lines 171-173)
StopSpinner(w) ==
    /\ pc = "ui"
    /\ ui.running
    /\ w \in 1..Len(ui.workers)
    /\ ui.workers[w].at = "stop"
    /\ ui' = [ui EXCEPT !.spinner = FALSE, !.workers[w].at = "show"]
    /\ UiFrame

\* the workers without worker w
Finished(ws, w) == SubSeq(ws, 1, w - 1) \o SubSeq(ws, w + 1, Len(ws))

\* lines 221-265: _render_detail
_render_detail(u, movie) ==
    [u EXCEPT !.table = FALSE, !.detail = TRUE, !.shown = movie,
              !.panel = PanelBack, !.focus = "detail_summary",
              !.in_detail = TRUE]

\* lines 214-219 in a worker: the message, or the detail view
ShowLoaded(w) ==
    /\ pc = "ui"
    /\ ui.running
    /\ w \in 1..Len(ui.workers)
    /\ ui.workers[w].at = "show"
    /\ ui' = [(IF ui.workers[w].movie = <<>>
               THEN [ui EXCEPT !.panel = PanelNone]
               ELSE _render_detail(ui, ui.workers[w].movie))
              EXCEPT !.workers = Finished(ui.workers, w)]
    /\ UiFrame

\* q
action_quit ==
    /\ pc = "ui"
    /\ ui.running
    /\ ui' = [ui EXCEPT !.running = FALSE]
    /\ UiFrame

NextUi ==
    \/ action_show_detail
    \/ action_back
    \/ MoveCursor
    \/ \E w \in 1..MaxWorkers : FetchDetail(w)
    \/ \E w \in 1..MaxWorkers : StopSpinner(w)
    \/ \E w \in 1..MaxWorkers : ShowLoaded(w)
    \/ action_quit

SpecUi == InitUi /\ [][NextUi]_vars

\* C39: once back was pressed while a detail load was in progress (the
\* spinner displayed), and until the user requests a detail again, the
\* result list is displayed and focused and the detail view is not shown,
\* whatever the workers still running do when they complete.
C39_BackCancelsLoad ==
    (ui # NoUi /\ ui.running /\ ui.backed) =>
        /\ ui.table
        /\ ui.focus = "table"
        /\ ~ ui.detail

(***************************************************************************)
(* The inventory query of the media server (src/jellyfin.py).  Ratings and *)
(* min_rt are in tenths (6.0 is 60, 60.0 percent is 600); None is <<>> and *)
(* a present number n is <<n>>.  An item of the library is what the server *)
(* lists for one movie: Id (<<>>: none), Name, CriticRating, MediaStreams, *)
(* and Detail, the server's answer to GET /Items/{Id} (status 0: the       *)
(* request raised).  The server lists the library in SortName order, Limit *)
(* items from StartIndex, with TotalRecordCount the size of the library.   *)
(***************************************************************************)
Video(h) == [Type |-> "Video", Height |-> <<h>>]

AudioStream == [Type |-> "Audio", Height |-> <<>>]

NoDetail == [status |-> 0, MediaStreams |-> <<>>]

\* what the server holds for a movie, apart from its place in the library
ItemKinds ==
    { [has_id |-> TRUE, CriticRating |-> <<600>>, MediaStreams |-> <<Video(480)>>,
       Detail |-> NoDetail],
      [has_id |-> TRUE, CriticRating |-> <<601>>, MediaStreams |-> <<Video(720)>>,
       Detail |-> NoDetail],
      [has_id |-> TRUE, CriticRating |-> <<599>>, MediaStreams |-> <<Video(480)>>,
       Detail |-> NoDetail],
      [has_id |-> TRUE, CriticRating |-> <<>>, MediaStreams |-> <<Video(480)>>,
       Detail |-> NoDetail],
      [has_id |-> TRUE, CriticRating |-> <<601>>, MediaStreams |-> <<AudioStream>>,
       Detail |-> [status |-> 200, MediaStreams |-> <<AudioStream, Video(480)>>]],
      [has_id |-> TRUE, CriticRating |-> <<601>>, MediaStreams |-> <<>>,
       Detail |-> [status |-> 404, MediaStreams |-> <<>>]],
      [has_id |-> FALSE, CriticRating |-> <<601>>, MediaStreams |-> <<>>,
       Detail |-> NoDetail],
      [has_id |-> TRUE, CriticRating |-> <<105>>,
       MediaStreams |-> <<Video(480), AudioStream, Video(1080)>>,
       Detail |-> NoDetail] }

\* the most movies in the library
MaxLibrary == 3

\* the item listed at place i
Item(kind, i) ==
    [Id |-> IF kind.has_id THEN <<i>> ELSE <<>>, Name |-> i,
     CriticRating |-> kind.CriticRating, MediaStreams |-> kind.MediaStreams,
     Detail |-> kind.Detail]

Libraries ==
    UNION { { [i \in 1..n |-> Item(ks[i], i)] : ks \in [1..n -> ItemKinds] } :
            n \in 0..MaxLibrary }

\* lines 49-52
_scale_min_rt(min_rt) == IF min_rt <= 100 THEN min_rt * 10 ELSE min_rt

\* lines 131-137 and 223-228: the maximum of the heights of the video
\* streams, starting from max_h
RECURSIVE MaxVideoHeight(_, _)
MaxVideoHeight(streams, max_h) ==
    IF streams = <<>> THEN max_h
    ELSE LET s == Head(streams)
             now == IF s.Type = "Video" /\ s.Height # <<>>
                    THEN IF max_h = <<>> THEN s.Height
                         ELSE IF s.Height[1] > max_h[1] THEN s.Height ELSE max_h
                    ELSE max_h
         IN MaxVideoHeight(Tail(streams), now)

\* lines 123-158
_extract_movie(item) ==
    [id |-> item.Id, name |-> item.Name, critic_rating |-> item.CriticRating,
     max_height |-> MaxVideoHeight(item.MediaStreams, <<>>)]

\* lines 204-233: the height is looked up in the item's details
WithDetailHeight(movie, item) ==
    IF movie.max_height = <<>> /\ movie.id # <<>> /\ item.Detail.status = 200
    THEN [movie EXCEPT !.max_height =
              MaxVideoHeight(item.Detail.MediaStreams, movie.max_height)]
    ELSE movie

\* lines 197-237 with < for <= at line 236
KeepBelow(item, threshold, max_height) ==
    LET movie == _extract_movie(item)
        found == WithDetailHeight(movie, item)
    IN IF movie.critic_rating = <<>> THEN <<>>
       ELSE IF movie.critic_rating[1] < threshold THEN <<>>
       ELSE IF found.max_height = <<>> THEN <<>>
       ELSE IF found.max_height[1] < max_height THEN <<found>>
       ELSE <<>>

\* lines 197-237: what the loop appends to results for one listed item
Keep(item, threshold, max_height) ==
    LET movie == _extract_movie(item)
        found == WithDetailHeight(movie, item)
    IN IF movie.critic_rating = <<>> THEN <<>>
       ELSE IF movie.critic_rating[1] < threshold THEN <<>>
       ELSE IF found.max_height = <<>> THEN <<>>
       ELSE IF found.max_height[1] <= max_height THEN <<found>>
       ELSE <<>>

RECURSIVE KeepAll(_, _, _)
KeepAll(items, threshold, max_height) ==
    IF items = <<>> THEN <<>>
    ELSE Keep(Head(items), threshold, max_height)
         \o KeepAll(Tail(items), threshold, max_height)

\* the server's page: Limit items from StartIndex
Page(library, start_index, page_limit) ==
    SubSeq(library, start_index + 1,
           IF start_index + page_limit < Len(library)
           THEN start_index + page_limit ELSE Len(library))

\* a call list_lowres_highrt(base_url, api_key, max_height, min_rt,
\* page_limit); ret holds the locals start_index and total of _iter_movies,
\* the list results and the number of pages requested
InitLibrary ==
    /\ NoSearch
    /\ batch = NoBatch
    /\ ui = NoUi
    /\ pc = "paging"
    /\ arg \in [library : Libraries, max_height : {480, 719},
                min_rt : {60, 105, 600}, page_limit : {1, 2}]
    /\ ret = [start_index |-> 0, total |-> <<>>, results |-> <<>>, pages |-> 0]

\* lines 94-120 and 196-237: one pass of the while loop of _iter_movies with
\* the loop body of list_lowres_highrt for each item it yields; after the
\* break the function returns results (line 256)
FetchPage ==
    /\ pc = "paging"
    /\ LET items == Page(arg.library, ret.start_index, arg.page_limit)
           count == Len(items)
           total == IF ret.total = <<>> THEN <<Len(arg.library)>> ELSE ret.total
           start_index == ret.start_index + count
       IN /\ ret' = [start_index |-> IF count = 0 THEN ret.start_index
                                     ELSE start_index,
                     total |-> total,
                     results |-> ret.results
                                 \o KeepAll(items, _scale_min_rt(arg.min_rt),
                                            arg.max_height),
                     pages |-> ret.pages + 1]
          /\ pc' = IF count = 0 \/ start_index >= total[1]
                      \/ count < arg.page_limit
                   THEN "listed" ELSE "paging"
    /\ UNCHANGED <<env, fn, ident, retries, bases, idx, attempt, backoff, movies,
                   result, last, nsleeps, slept, allDns, onlyFail, abandoned,
                   prevBackoff, causes, row, arg, batch, ui>>

NextLibrary == FetchPage

SpecLibrary == InitLibrary /\ [][NextLibrary]_vars

\* the heights the server knows for the item's video streams: those of the
\* listing or, when the listing has none, those of the item's details
VideoHeights(streams) ==
    { streams[i].Height[1] :
        i \in { j \in 1..Len(streams) :
                  streams[j].Type = "Video" /\ streams[j].Height # <<>> } }

KnownHeights(item) ==
    IF VideoHeights(item.MediaStreams) # {} THEN VideoHeights(item.MediaStreams)
    ELSE IF item.Id # <<>> /\ item.Detail.status = 200
    THEN VideoHeights(item.Detail.MediaStreams)
    ELSE {}

LowRes(item) ==
    /\ KnownHeights(item) # {}
    /\ \A h \in KnownHeights(item) : h < arg.max_height + 1

Threshold == IF arg.min_rt <= 100 THEN arg.min_rt * 10 ELSE arg.min_rt

RatedAbove(item) ==
    item.CriticRating # <<>> /\ item.CriticRating[1] > Threshold

RatedAtLeast(item) ==
    item.CriticRating # <<>> /\ item.CriticRating[1] >= Threshold

LowResAbove(item) == LowRes(item) /\ RatedAbove(item)

LowResAtLeast(item) == LowRes(item) /\ RatedAtLeast(item)

\* the names of the movies of a list, in its order
NamesOf(ms) == [i \in 1..Len(ms) |-> ms[i].name]

NamesOfItems(items) == [i \in 1..Len(items) |-> items[i].Name]

====
